---- MODULE Spec2Model ----
(***************************************************************************)
(* Interest-rate derivatives pricing: the CIR short-rate model, the bond   *)
(* pricer with its yield-to-maturity bisection, the cap/floor and swaption *)
(* pricers and the hedging simulator's use of the shared rate model.       *)
(*                                                                         *)
(* Real numbers are fixed-point integers: a value x stands for x / Scale.  *)
(* Dates and year fractions use the same scale, so 0.5 year is Scale/2.    *)
(***************************************************************************)
EXTENDS Integers, Sequences, FiniteSets, TLC

\* One unit of the fixed-point representation is 1/Scale = 0.0001.
Scale == 10 ^ 4

------------------------------------------------------------------------------
(* Fixed-point arithmetic standing for the float operations of the source. *)

Abs(x) == IF x < 0 THEN -x ELSE x

Max(a, b) == IF a >= b THEN a ELSE b

Min(a, b) == IF a <= b THEN a ELSE b

\* a / b rounded to the nearest integer, b > 0.
RoundDiv(a, b) == (a + b \div 2) \div b

\* Product and quotient of two fixed-point values.
Mul(a, b) == RoundDiv(a * b, Scale)

Div(a, b) == IF b > 0 THEN RoundDiv(a * Scale, b) ELSE -RoundDiv(a * Scale, -b)

\* Integer square root by Newton's iteration, n >= 0.
RECURSIVE NewtonSqrt(_, _)
NewtonSqrt(n, g) ==
    LET h == (g + n \div g) \div 2
    IN  IF h >= g THEN g ELSE NewtonSqrt(n, h)

ISqrt(n) == IF n <= 0 THEN 0 ELSE NewtonSqrt(n, n)

\* np.sqrt on a non-negative fixed-point value.
Sqrt(x) == ISqrt(x * Scale)

\* np.exp: Taylor series on [-1, 1], argument halving outside it.
RECURSIVE ExpSeries(_, _, _, _)
ExpSeries(x, n, term, acc) ==
    IF term = 0 \/ n > 40 THEN acc
    ELSE LET next == RoundDiv(term * x, n * Scale)
         IN  ExpSeries(x, n + 1, next, acc + next)

RECURSIVE Exp(_)
Exp(x) ==
    IF x > Scale \/ x < -Scale
    THEN LET h == x \div 2
         IN  Mul(Exp(h), Exp(x - h))
    ELSE ExpSeries(x, 1, Scale, Scale)

\* np.log on a positive fixed-point value: 2 * atanh((x - 1) / (x + 1)).
RECURSIVE LnSeries(_, _, _, _)
LnSeries(z2, k, pow, acc) ==
    IF pow = 0 \/ k > 99 THEN acc
    ELSE LET next == Mul(pow, z2)
         IN  LnSeries(z2, k + 2, next, acc + RoundDiv(next, k + 2))

Ln(x) ==
    LET z == Div(x - Scale, x + Scale)
    IN  2 * LnSeries(Mul(z, z), 1, z, z)

\* x ** y for x > 0.
Pow(x, y) == Exp(Mul(y, Ln(x)))

------------------------------------------------------------------------------
(* Bounds of the model.                                                   *)

\* Largest n_paths passed to simulate_rates and HedgingSimulator.simulate.
MaxPaths == 1

\* Largest timesteps a model is constructed with.
MaxSteps == 2

\* Number of HedgingSimulator.simulate runs explored on one model object.
MaxHedgeRuns == 1

\* Length of the generator state (pending standard-normal draws).
TapeLen == 2

------------------------------------------------------------------------------
(* Inputs.                                                                 *)

Half == Scale \div 2

\* r0, kappa, theta, sigma handed to the CIR constructor.
R0Choices == {-100, 0, 300}

KappaChoices == {5000}

ThetaChoices == {400, 500}

SigmaChoices == {0, 2000, 3000}

TimestepChoices == 1 .. MaxSteps

HorizonChoices == {Scale}

\* seed = None is NoSeed; the others are integer seeds.
NoSeed == -1

SeedChoices == {NoSeed, 1}

\* time_horizon = None of HedgingSimulator.simulate.
NoHorizon == -1

\* Standard-normal values the generator can deliver.
StdNormals == <<-3 * Scale, 3 * Scale>>

Tapes == [1 .. TapeLen -> 1 .. Len(StdNormals)]

FieldNames == {"r0", "params", "timesteps", "time_horizon", "dt"}

VARIABLES
    model,      \* the CIR object: its construction status and its attributes
    rng,        \* state of numpy's global random generator
    ret,        \* the last call and what it returned or raised
    first,      \* the first seeded simulate_rates call on the model and its result
    hedgeRuns,  \* number of HedgingSimulator.simulate runs so far
    credit_spread,  \* BondPricer.credit_spread
    ytm,        \* calculate_yield_to_maturity in progress: its arguments and locals
    hedge,      \* HedgingSimulator.simulate in progress: its locals and arrays
    seen        \* an earlier pricer call kept by the caller, with the rate it saw

vars == <<model, rng, ret, first, hedgeRuns, credit_spread, ytm, hedge, seen>>

\* What the rate model's own operations leave alone.
pricerVars == <<credit_spread, ytm, hedge, seen>>

------------------------------------------------------------------------------
(* numpy's global generator: np.random.seed and np.random.normal.          *)

\* np.random.seed(seed): the state is a function of the seed alone.
SeedTape(seed) == [i \in 1 .. TapeLen |-> ((seed + i * i) % Len(StdNormals)) + 1]

\* The state after one draw: the drawn entry leaves, a fed-back one enters.
Advance(tape) ==
    [i \in 1 .. TapeLen |->
        IF i < TapeLen THEN tape[i + 1]
        ELSE ((tape[1] + tape[TapeLen]) % Len(StdNormals)) + 1]

RECURSIVE AdvanceBy(_, _)
AdvanceBy(tape, k) == IF k = 0 THEN tape ELSE AdvanceBy(Advance(tape), k - 1)

\* The k-th standard-normal value drawn from state tape (k >= 1).
Draw(tape, k) == StdNormals[AdvanceBy(tape, k - 1)[1]]

------------------------------------------------------------------------------
(* CIR: construction (cir.py) on top of the base initialiser.              *)

NoModel ==
    [state |-> "absent", init |-> {}, r0 |-> 0, kappa |-> 0, theta |-> 0,
     sigma |-> 0, timesteps |-> 0, time_horizon |-> 0, dt |-> 0]

\* InterestRateModel.__init__: stores r0, params and the discretisation.
BaseInit(r0, kappa, theta, sigma, timesteps, time_horizon) ==
    [state |-> "constructed", init |-> FieldNames, r0 |-> r0, kappa |-> kappa,
     theta |-> theta, sigma |-> sigma, timesteps |-> timesteps,
     time_horizon |-> time_horizon, dt |-> RoundDiv(time_horizon, timesteps)]

\* The check with a strict comparison: r0 = 0 would be accepted.
R0RejectedStrict(r0) == r0 < 0

\* if r0 <= 0: raise ValueError
R0Rejected(r0) == r0 <= 0

\* if 2 * kappa * theta <= sigma**2: raise ValueError
FellerRejected(kappa, theta, sigma) == 2 * kappa * theta <= sigma * sigma

CIRInit(r0, kappa, theta, sigma, timesteps, time_horizon) ==
    IF R0Rejected(r0) THEN [NoModel EXCEPT !.state = "failed"]
    ELSE IF FellerRejected(kappa, theta, sigma) THEN [NoModel EXCEPT !.state = "failed"]
    ELSE BaseInit(r0, kappa, theta, sigma, timesteps, time_horizon)

------------------------------------------------------------------------------
(* CIR.simulate_rates (cir.py).                                            *)

\* The step without the final floor.
StepNoFloor(x) == x

\* One Euler step with reflection at zero, from the previous rate and dW:
\* np.maximum(0, ...) on the result.
StepFloor(x) == Max(0, x)

StepRate(m, prev, dW) ==
    LET plus      == Max(0, prev)
        drift     == Mul(Mul(m.kappa, m.theta - plus), m.dt)
        diffusion == Mul(Mul(m.sigma, Sqrt(Mul(plus, m.dt))), dW)
    IN  StepFloor(prev + drift + diffusion)

\* dW = np.random.normal(0, np.sqrt(dt), n_paths): entry p of the draw at step t.
DeltaW(m, tape, n, p, t) == Mul(Sqrt(m.dt), Draw(tape, (t - 1) * n + p))

RECURSIVE PathRate(_, _, _, _, _)
PathRate(m, tape, n, p, t) ==
    IF t = 0 THEN m.r0
    ELSE StepRate(m, PathRate(m, tape, n, p, t - 1), DeltaW(m, tape, n, p, t))

\* The generator state simulate_rates starts drawing from.
StartTape(tape, seed) == IF seed # NoSeed THEN SeedTape(seed) ELSE tape

\* d = 4 * kappa * theta / sigma**2 raises ZeroDivisionError in the first step.
SimulateRaises(m) == m.sigma = 0 /\ m.timesteps >= 1

\* rates[p][t + 1] is the source's rates[p - 1, t].
SimulateRates(m, tape, n, seed) ==
    [p \in 1 .. n |->
        [t \in 1 .. m.timesteps + 1 |-> PathRate(m, StartTape(tape, seed), n, p, t - 1)]]

\* The global generator after the call (after the first draw when it raises).
TapeAfterSimulate(m, tape, n, seed) ==
    AdvanceBy(StartTape(tape, seed), IF SimulateRaises(m) THEN n ELSE n * m.timesteps)

------------------------------------------------------------------------------
(* CIR.zero_coupon_bond_price (cir.py).                                    *)

\* The guard with a strict comparison: t = T would take the closed form.
ZcbAtParStrict(t, T) == t > T

\* if t >= T: return 1.0
ZcbAtPar(t, T) == t >= T

\* The closed form A * exp(-B * r), sigma # 0.
ZcbClosedForm(m, t, T, r) ==
    LET h      == Sqrt(Mul(m.kappa, m.kappa) + 2 * Mul(m.sigma, m.sigma))
        tau    == T - t
        ehm    == Exp(Mul(h, tau)) - Scale
        Anum   == 2 * Mul(h, Exp(RoundDiv(Mul(m.kappa + h, tau), 2)))
        Adenom == 2 * h + Mul(m.kappa + h, ehm)
        A      == Pow(Div(Anum, Adenom), Div(2 * Mul(m.kappa, m.theta), Mul(m.sigma, m.sigma)))
        B      == Div(2 * ehm, Adenom)
    IN  Mul(A, Exp(-Mul(B, r)))

ZeroCouponBondPrice(m, t, T, r) ==
    IF ZcbAtPar(t, T) THEN Scale ELSE ZcbClosedForm(m, t, T, r)

------------------------------------------------------------------------------
(* HedgingSimulator.simulate (simulation.py): what a run does to the       *)
(* shared rate model and to the global generator.                          *)

\* if time_horizon != self.rate_model.time_horizon: adapt timesteps and horizon.
AdaptHorizon(m, th) ==
    IF th # NoHorizon /\ th # m.time_horizon
    THEN [m EXCEPT !.time_horizon = th, !.timesteps = th \div m.dt]
    ELSE m

\* self.rate_model.r0 = rates[path, t] in the path and step loops: the last
\* assignment is rates[n_paths - 1, timesteps]; none when n_paths = 0.
ModelAfterHedge(m, tape, n, th, seed) ==
    LET a     == AdaptHorizon(m, th)
        rates == SimulateRates(a, tape, n, seed)
    IN  IF SimulateRaises(a) \/ n = 0 THEN a
        ELSE [a EXCEPT !.r0 = rates[n][a.timesteps + 1]]

------------------------------------------------------------------------------
(* The model object's life: construction, then calls in any order.         *)

PathChoices == 0 .. MaxPaths

HedgeHorizonChoices == {NoHorizon, Half}

DateChoices == {0, Half, Scale, 2 * Scale}

RateChoices == {-100, 0, 300, 1000}

NoCall == [op |-> "none"]

NoFirst == [seed |-> NoSeed, n_paths |-> 0, timesteps |-> 0, rates |-> <<>>]

\* No yield-to-maturity call is in progress.
NoYtm == [pc |-> "idle"]

\* No HedgingSimulator.simulate run is in progress.
NoHedge == [pc |-> "idle"]

\* The caller keeps no earlier call.
NoSeen == [op |-> "none"]

Init ==
    /\ model = NoModel
    /\ rng \in Tapes
    /\ ret = NoCall
    /\ first = NoFirst
    /\ hedgeRuns = 0
    /\ credit_spread = 0
    /\ ytm = NoYtm
    /\ hedge = NoHedge
    /\ seen = NoSeen

\* CIR(r0, kappa, theta, sigma, timesteps, time_horizon)
Construct(r0, kappa, theta, sigma, timesteps, th) ==
    /\ model.state # "constructed"
    /\ model' = CIRInit(r0, kappa, theta, sigma, timesteps, th)
    /\ ret' = [op |-> "CIR", r0 |-> r0, kappa |-> kappa, theta |-> theta,
               sigma |-> sigma,
               kind |-> IF model'.state = "constructed" THEN "ok" ELSE "raise"]
    /\ UNCHANGED <<rng, first, hedgeRuns, pricerVars>>

\* model.simulate_rates(n_paths, seed)
SimulateRatesCall(n, seed) ==
    /\ model.state = "constructed"
    /\ rng' = TapeAfterSimulate(model, rng, n, seed)
    /\ IF SimulateRaises(model)
       THEN /\ ret' = [op |-> "simulate_rates", kind |-> "raise", seed |-> seed,
                       n_paths |-> n, timesteps |-> model.timesteps, rates |-> <<>>]
            /\ UNCHANGED first
       ELSE /\ ret' = [op |-> "simulate_rates", kind |-> "ok", seed |-> seed,
                       n_paths |-> n, timesteps |-> model.timesteps,
                       rates |-> SimulateRates(model, rng, n, seed)]
            /\ first' = IF seed # NoSeed /\ first.seed = NoSeed
                        THEN [seed |-> seed, n_paths |-> n,
                              timesteps |-> model.timesteps, rates |-> ret'.rates]
                        ELSE first
    /\ UNCHANGED <<model, hedgeRuns, pricerVars>>

\* model.zero_coupon_bond_price(t, T, r)
ZeroCouponBondPriceCall(t, T, r) ==
    /\ model.state = "constructed"
    /\ ret' = IF ZcbAtPar(t, T)
              THEN [op |-> "zero_coupon_bond_price", t |-> t, T |-> T, r |-> r,
                    branch |-> "par", kind |-> "ok", val |-> Scale]
              ELSE IF model.sigma = 0
              THEN [op |-> "zero_coupon_bond_price", t |-> t, T |-> T, r |-> r,
                    branch |-> "closed_form", kind |-> "raise", val |-> 0]
              ELSE [op |-> "zero_coupon_bond_price", t |-> t, T |-> T, r |-> r,
                    branch |-> "closed_form", kind |-> "ok",
                    val |-> ZcbClosedForm(model, t, T, r)]
    /\ UNCHANGED <<model, rng, first, hedgeRuns, pricerVars>>

\* HedgingSimulator(model, ...).simulate(n_paths, time_horizon, seed)
HedgeSimulateCall(n, th, seed) ==
    /\ model.state = "constructed"
    /\ hedgeRuns < MaxHedgeRuns
    /\ hedgeRuns' = hedgeRuns + 1
    /\ model' = ModelAfterHedge(model, rng, n, th, seed)
    /\ rng' = TapeAfterSimulate(AdaptHorizon(model, th), rng, n, seed)
    /\ ret' = [op |-> "simulate", n_paths |-> n, seed |-> seed,
               kind |-> IF SimulateRaises(model') THEN "raise" ELSE "ok",
               rates |-> IF SimulateRaises(model') THEN <<>>
                         ELSE SimulateRates(AdaptHorizon(model, th), rng, n, seed)]
    /\ UNCHANGED <<first, pricerVars>>

Next ==
    \/ \E r0 \in R0Choices, kappa \in KappaChoices, theta \in ThetaChoices,
          sigma \in SigmaChoices, ts \in TimestepChoices, th \in HorizonChoices :
            Construct(r0, kappa, theta, sigma, ts, th)
    \/ \E n \in PathChoices, seed \in SeedChoices : SimulateRatesCall(n, seed)
    \/ \E n \in PathChoices, th \in HedgeHorizonChoices, seed \in SeedChoices :
            HedgeSimulateCall(n, th, seed)

Spec == Init /\ [][Next]_vars

------------------------------------------------------------------------------
(* Calls on a constructed model.                                           *)

\* The objects the constructor can return.
ConstructedModels ==
    {m \in {CIRInit(r0, kappa, theta, sigma, ts, th) :
                r0 \in R0Choices, kappa \in KappaChoices, theta \in ThetaChoices,
                sigma \in SigmaChoices, ts \in TimestepChoices, th \in HorizonChoices} :
        m.state = "constructed"}

ZcbInit ==
    /\ model \in ConstructedModels
    /\ rng = SeedTape(0)
    /\ ret = NoCall
    /\ first = NoFirst
    /\ hedgeRuns = 0
    /\ credit_spread = 0
    /\ ytm = NoYtm
    /\ hedge = NoHedge
    /\ seen = NoSeen

ZcbNext ==
    \E t \in DateChoices, T \in DateChoices, r \in RateChoices :
        ZeroCouponBondPriceCall(t, T, r)

ZcbSpec == ZcbInit /\ [][ZcbNext]_vars

------------------------------------------------------------------------------
(* Properties.                                                             *)

\* C3: constructing the CIR model with r0 <= 0 or with 2*kappa*theta <= sigma^2
\* raises before any attribute is initialised (the base initialiser is not
\* reached); construction succeeds exactly when r0 > 0 and 2*kappa*theta > sigma^2,
\* and then every attribute is initialised.
C3_ConstructionValidated ==
    ret.op = "CIR" =>
        LET bad == ret.r0 <= 0 \/ 2 * ret.kappa * ret.theta <= ret.sigma * ret.sigma
        IN  /\ (ret.kind = "raise") = bad
            /\ bad => model.state = "failed" /\ model.init = {}
            /\ ~bad => /\ model.state = "constructed"
                       /\ model.init = FieldNames
                       /\ model.r0 = ret.r0
                       /\ model.sigma = ret.sigma

\* A construction rejected for its r0 alone, and one rejected by the Feller
\* condition alone at equality.
C3_Witness ==
    /\ ret.op = "CIR"
    /\ ret.kind = "raise"
    /\ model.init = {}
    /\ ret.r0 > 0
    /\ 2 * ret.kappa * ret.theta = ret.sigma * ret.sigma

\* C4: every entry of the array simulate_rates returns is >= 0, whatever the
\* normal draws; after an entry floored to zero the next entry is the drift
\* from zero, kappa * theta * dt, as the step starts from max(0, previous).
C4_RatesNonNegative ==
    (ret.op = "simulate_rates" /\ ret.kind = "ok") =>
        \A p \in 1 .. ret.n_paths : \A t \in 1 .. ret.timesteps + 1 :
            /\ ret.rates[p][t] >= 0
            /\ (t > 1 /\ ret.rates[p][t - 1] = 0) =>
                    ret.rates[p][t] = Mul(Mul(model.kappa, model.theta), model.dt)

\* A path that was floored at zero and left zero again in the next step.
C4_Witness ==
    /\ ret.op = "simulate_rates"
    /\ ret.kind = "ok"
    /\ \E p \in 1 .. ret.n_paths : \E t \in 2 .. ret.timesteps :
            /\ ret.rates[p][t - 1] > 0
            /\ ret.rates[p][t] = 0
            /\ ret.rates[p][t + 1] > 0

\* C5: a seeded simulate_rates call returns the array the first call with the
\* same seed, n_paths and timesteps returned on this model, whatever was
\* called on the model in between.
C5_SeededCallsAgree ==
    ( /\ ret.op = "simulate_rates"
      /\ ret.kind = "ok"
      /\ ret.seed # NoSeed
      /\ ret.seed = first.seed
      /\ ret.n_paths = first.n_paths
      /\ ret.timesteps = first.timesteps ) => ret.rates = first.rates

\* C6: zero_coupon_bond_price(t, T, r) returns exactly 1.0 whenever t >= T,
\* for every r, and takes the closed-form branch only when t < T.
C6_ParAtOrAfterMaturity ==
    ret.op = "zero_coupon_bond_price" =>
        /\ ret.t >= ret.T => ret.kind = "ok" /\ ret.val = Scale /\ ret.branch = "par"
        /\ ret.branch = "closed_form" => ret.t < ret.T

\* A call strictly after maturity at a non-zero rate, on a model whose closed
\* form would not give 1.0 there.
C6_Witness ==
    /\ ret.op = "zero_coupon_bond_price"
    /\ ret.t > ret.T
    /\ ret.r > 0
    /\ ret.val = Scale
    /\ model.sigma # 0
    /\ ZcbClosedForm(model, ret.t, ret.T, ret.r) # Scale

------------------------------------------------------------------------------
(* BondPricer (bond_pricing.py).                                           *)

\* Largest max_iterations passed to calculate_yield_to_maturity.
MaxIter == 5

\* A rate inside the bisection is held in units of 1 / (Scale * Fine), so
\* that the midpoints of MaxIter + 1 halvings are exact as they are in floats.
Fine == 2 ^ (MaxIter + 1)

\* low_rate = 0.0001 and high_rate = 0.5
LowRate == 1

HighRate == 5000

RECURSIVE SumSeq(_)
SumSeq(q) == IF q = <<>> THEN 0 ELSE Head(q) + SumSeq(Tail(q))

\* np.arange(start, stop + 1e-10, step) for step > 0 on the date grid:
\* start, start + step, ... up to and including stop.
Arange(start, stop, step) ==
    [i \in 1 .. (IF stop < start THEN 0 ELSE (stop - start) \div step + 1) |->
        start + (i - 1) * step]

\* Coupon dates kept strictly after the valuation date.
AfterValuation(d, v) == d > v

\* The coupon schedule of price_fixed_coupon_bond.
CouponDates(M, f, v) ==
    IF v > 0
    THEN SelectSeq(Arange(f, M, f), LAMBDA d : AfterValuation(d, v))
    ELSE Arange(v + f, M, f)

\* The schedule from the valuation date on, without the nominal dates.
SolverCouponDatesUnfiltered(M, f, v) == Arange(v + f, M, f)

\* The coupon schedule price_difference builds on each evaluation.
SolverCouponDates(M, f, v) ==
    IF v > 0
    THEN SelectSeq(Arange(f, M, f), LAMBDA d : AfterValuation(d, v))
    ELSE Arange(v + f, M, f)

\* The coupon schedule of calculate_duration.
DurationCouponDates(M, f, v) ==
    IF v > 0
    THEN SelectSeq(Arange(f, M, f), LAMBDA d : AfterValuation(d, v))
    ELSE Arange(v + f, M, f)

\* The model's discount factor to date d, times exp(-credit_spread * (d - v))
\* when a credit spread is configured.
CreditDiscount(m, cs, v, d) ==
    LET df == ZeroCouponBondPrice(m, v, d, m.r0)
    IN  IF cs > 0 THEN Mul(df, Exp(-Mul(cs, d - v))) ELSE df

\* The guard with a strict comparison: a bond maturing on the valuation date
\* would be priced from the model.
MaturedStrict(M, v) == M < v

\* if maturity <= valuation_date: the sentinel is returned.
Matured(M, v) == M <= v

\* price_zero_coupon_bond: the price and the number of calls made to the
\* model's zero_coupon_bond_price.
PriceZeroCouponBond(m, cs, M, N, v) ==
    IF Matured(M, v) THEN [val |-> N, zcb |-> 0]
    ELSE [val |-> Mul(N, CreditDiscount(m, cs, v, M)), zcb |-> 1]

\* The price with the redemption left out when maturity is a coupon date.
PriceFixedCouponBondMerged(m, cs, M, c, f, N, v) ==
    IF Matured(M, v) THEN [val |-> N, zcb |-> 0]
    ELSE LET dates  == CouponDates(M, f, v)
             coupon == Mul(Mul(N, c), f)
             flows  == [i \in 1 .. Len(dates) |->
                            Mul(coupon, CreditDiscount(m, cs, v, dates[i]))]
             last   == Len(dates) > 0 /\ dates[Len(dates)] = M
         IN  [val |-> SumSeq(flows)
                        + (IF last THEN 0 ELSE Mul(N, CreditDiscount(m, cs, v, M))),
              zcb |-> Len(dates) + (IF last THEN 0 ELSE 1)]

\* price_fixed_coupon_bond: the price and the number of calls made to the
\* model's zero_coupon_bond_price.
PriceFixedCouponBond(m, cs, M, c, f, N, v) ==
    IF Matured(M, v) THEN [val |-> N, zcb |-> 0]
    ELSE LET dates  == CouponDates(M, f, v)
             coupon == Mul(Mul(N, c), f)
             flows  == [i \in 1 .. Len(dates) |->
                            Mul(coupon, CreditDiscount(m, cs, v, dates[i]))]
         IN  [val |-> SumSeq(flows) + Mul(N, CreditDiscount(m, cs, v, M)),
              zcb |-> Len(dates) + 1]

\* np.exp(-ytm * time) for a rate y in bisection units.
FlatDiscount(y, time) == Exp(-Mul(RoundDiv(y, Fine), time))

\* price_difference(ytm): the flat-rate price minus the observed price.
PriceDifference(a, y) ==
    LET dates  == SolverCouponDates(a.M, a.f, a.v)
        coupon == Mul(Mul(a.N, a.c), a.f)
        flows  == [i \in 1 .. Len(dates) |->
                        Mul(coupon, FlatDiscount(y, dates[i] - a.v))]
    IN  SumSeq(flows) + Mul(a.N, FlatDiscount(y, a.M - a.v)) - a.price

\* (low_rate + high_rate) / 2.0
\* The midpoint replaced by the lower end of the bracket.
MidRateLow(low, high) == low

MidRate(low, high) == (low + high) \div 2

\* abs(price_difference(mid_rate)) < precision
Converged(a, mid) == Abs(PriceDifference(a, mid)) < a.precision

\* The test with the sign reversed: high moves when the signs agree.
MoveHighSameSign(a, low, mid) == PriceDifference(a, mid) * PriceDifference(a, low) > 0

\* The upper bound moved in every iteration.
MoveHighAlways(a, low, mid) == TRUE

\* price_difference(mid_rate) * price_difference(low_rate) < 0
MoveHigh(a, low, mid) == PriceDifference(a, mid) * PriceDifference(a, low) < 0

\* The bisection from bracket [low, high] with iter iterations done: the rate
\* returned. Once the bracket is one unit wide mid = low, so an iteration that
\* does not return leaves the bracket as it is (f(mid) * f(low) >= 0 moves low
\* to mid); the iterations left are then not unfolded.
RECURSIVE Bisect(_, _, _, _)
Bisect(a, low, high, iter) ==
    LET mid == MidRate(low, high)
    IN  IF iter >= a.max_iterations THEN mid
        ELSE IF Converged(a, mid) THEN mid
        ELSE IF mid = low THEN mid
        ELSE IF MoveHigh(a, low, mid) THEN Bisect(a, low, mid, iter + 1)
        ELSE Bisect(a, mid, high, iter + 1)

\* calculate_yield_to_maturity as one call.
YieldToMaturity(a) ==
    IF Matured(a.M, a.v) THEN 0 ELSE Bisect(a, LowRate * Fine, HighRate * Fine, 0)

\* max_iterations=100 and precision=1e-8, the defaults the duration
\* calculators call the solver with; 1e-8 is below one fixed-point unit, so
\* |f| < precision holds exactly when f rounds to zero.
DefaultMaxIterations == 100

DefaultPrecision == 1

\* The arguments calculate_duration passes to the solver.
SolverArgs(price, M, c, f, N, v) ==
    [price |-> price, M |-> M, c |-> c, f |-> f, N |-> N, v |-> v,
     max_iterations |-> DefaultMaxIterations, precision |-> DefaultPrecision]

\* if maturity <= valuation_date: return 0.0 (calculate_duration)
DurationMatured(M, v) == M <= v

\* calculate_duration: Macaulay duration and the number of calls made to the
\* model's zero_coupon_bond_price.
CalculateDuration(m, cs, M, c, f, N, v) ==
    IF DurationMatured(M, v) THEN [val |-> 0, zcb |-> 0]
    ELSE LET price  == PriceFixedCouponBond(m, cs, M, c, f, N, v)
             y      == YieldToMaturity(SolverArgs(price.val, M, c, f, N, v))
             dates  == DurationCouponDates(M, f, v)
             coupon == Mul(Mul(N, c), f)
             flows  == [i \in 1 .. Len(dates) |->
                            Mul(dates[i] - v, Mul(coupon, FlatDiscount(y, dates[i] - v)))]
             weighted == SumSeq(flows) + Mul(M - v, Mul(N, FlatDiscount(y, M - v)))
         IN  [val |-> Div(weighted, price.val), zcb |-> price.zcb]

\* calculate_modified_duration: no early return of its own; it divides the
\* Macaulay duration by 1 + ytm / frequency.
CalculateModifiedDuration(m, cs, M, c, f, N, v) ==
    LET price == PriceFixedCouponBond(m, cs, M, c, f, N, v)
        y     == YieldToMaturity(SolverArgs(price.val, M, c, f, N, v))
        mac   == CalculateDuration(m, cs, M, c, f, N, v)
    IN  [val |-> Div(mac.val, Scale + Div(RoundDiv(y, Fine), f)),
         zcb |-> price.zcb + mac.zcb]

------------------------------------------------------------------------------
(* Calls on a BondPricer built on a constructed model.                     *)

MaturityChoices == {Half, Scale, 2 * Scale}

ValuationChoices == {0, Half, Scale}

CouponChoices == {0, 500}

FrequencyChoices == {Half, Scale}

NotionalChoices == {Scale, 2 * Scale}

CreditSpreadChoices == {0, 2500}

PriceChoices == {9000, 12000}

PrecisionChoices == {DefaultPrecision, 200}

IterationChoices == {0, 1, MaxIter}

\* Models the pricers are built on: the closed-form price needs sigma # 0.
PricerModels == {m \in ConstructedModels : m.sigma # 0 /\ m.timesteps = 1}

BondInit ==
    /\ model \in PricerModels
    /\ rng = SeedTape(0)
    /\ ret = NoCall
    /\ first = NoFirst
    /\ hedgeRuns = 0
    /\ credit_spread \in CreditSpreadChoices
    /\ ytm = NoYtm
    /\ hedge = NoHedge
    /\ seen = NoSeen

\* The interpreter is inside the bisection loop.
InLoop == ytm.pc = "loop"

\* The caller is ready for its next call: the last result has been consumed.
Ready == ret = NoCall /\ ytm = NoYtm

\* The caller consumes the result of the call that has returned.
Consume ==
    /\ ~InLoop
    /\ ret # NoCall
    /\ ret' = NoCall
    /\ ytm' = NoYtm
    /\ UNCHANGED <<model, rng, first, hedgeRuns, credit_spread, hedge, seen>>

BondRet(op, M, c, f, N, v, r) ==
    [op |-> op, kind |-> "ok", M |-> M, c |-> c, f |-> f, N |-> N, v |-> v,
     val |-> r.val, zcb |-> r.zcb]

PriceZeroCouponBondCall(M, N, v) ==
    /\ Ready
    /\ ret' = BondRet("price_zero_coupon_bond", M, 0, 0, N, v,
                      PriceZeroCouponBond(model, credit_spread, M, N, v))
    /\ ytm' = NoYtm
    /\ UNCHANGED <<model, rng, first, hedgeRuns, credit_spread, hedge, seen>>

PriceFixedCouponBondCall(M, c, f, N, v) ==
    /\ Ready
    /\ ret' = BondRet("price_fixed_coupon_bond", M, c, f, N, v,
                      PriceFixedCouponBond(model, credit_spread, M, c, f, N, v))
    /\ ytm' = NoYtm
    /\ UNCHANGED <<model, rng, first, hedgeRuns, credit_spread, hedge, seen>>

CalculateDurationCall(M, c, f, N, v) ==
    /\ Ready
    /\ ret' = BondRet("calculate_duration", M, c, f, N, v,
                      CalculateDuration(model, credit_spread, M, c, f, N, v))
    /\ ytm' = NoYtm
    /\ UNCHANGED <<model, rng, first, hedgeRuns, credit_spread, hedge, seen>>

CalculateModifiedDurationCall(M, c, f, N, v) ==
    /\ Ready
    /\ ret' = BondRet("calculate_modified_duration", M, c, f, N, v,
                      CalculateModifiedDuration(model, credit_spread, M, c, f, N, v))
    /\ ytm' = NoYtm
    /\ UNCHANGED <<model, rng, first, hedgeRuns, credit_spread, hedge, seen>>

\* calculate_yield_to_maturity up to its loop: the sentinel, or the bracket.
YtmEnter(a) ==
    /\ ~InLoop
    /\ IF Matured(a.M, a.v)
       THEN /\ ytm' = [pc |-> "done", a |-> a, low |-> 0, high |-> 0, iter |-> 0,
                       early |-> FALSE, val |-> 0]
            /\ ret' = BondRet("calculate_yield_to_maturity", a.M, a.c, a.f, a.N, a.v,
                              [val |-> 0, zcb |-> 0])
       ELSE /\ ytm' = [pc |-> "loop", a |-> a, low |-> LowRate * Fine,
                       high |-> HighRate * Fine, iter |-> 0, early |-> FALSE, val |-> 0]
            /\ ret' = NoCall
    /\ UNCHANGED <<model, rng, first, hedgeRuns, credit_spread, hedge, seen>>

\* A call with an observed price.
YtmCall(price, M, c, f, N, v, maxit, prec) ==
    /\ Ready
    /\ YtmEnter([price |-> price, M |-> M, c |-> c, f |-> f, N |-> N, v |-> v,
                 max_iterations |-> maxit, precision |-> prec])

\* A call on the price price_fixed_coupon_bond has just returned, with the
\* bond's own arguments.
YtmOfPrice(maxit, prec) ==
    /\ ret.op = "price_fixed_coupon_bond"
    /\ YtmEnter([price |-> ret.val, M |-> ret.M, c |-> ret.c, f |-> ret.f,
                 N |-> ret.N, v |-> ret.v, max_iterations |-> maxit,
                 precision |-> prec])

\* One pass of `for _ in range(max_iterations)`, or the return after it.
YtmIter ==
    /\ InLoop
    /\ LET a   == ytm.a
           mid == MidRate(ytm.low, ytm.high)
           out == [val |-> mid, zcb |-> 0]
       IN  IF ytm.iter >= a.max_iterations
           THEN /\ ytm' = [ytm EXCEPT !.pc = "done", !.val = mid]
                /\ ret' = BondRet("calculate_yield_to_maturity", a.M, a.c, a.f, a.N, a.v, out)
           ELSE IF Converged(a, mid)
           THEN /\ ytm' = [ytm EXCEPT !.pc = "done", !.val = mid, !.early = TRUE]
                /\ ret' = BondRet("calculate_yield_to_maturity", a.M, a.c, a.f, a.N, a.v, out)
           ELSE IF MoveHigh(a, ytm.low, mid)
           THEN /\ ytm' = [ytm EXCEPT !.high = mid, !.iter = @ + 1]
                /\ UNCHANGED ret
           ELSE /\ ytm' = [ytm EXCEPT !.low = mid, !.iter = @ + 1]
                /\ UNCHANGED ret
    /\ UNCHANGED <<model, rng, first, hedgeRuns, credit_spread, hedge, seen>>

BondNext ==
    \/ \E M \in MaturityChoices, N \in NotionalChoices, v \in ValuationChoices :
            PriceZeroCouponBondCall(M, N, v)
    \/ \E M \in MaturityChoices, c \in CouponChoices, f \in FrequencyChoices,
          N \in NotionalChoices, v \in ValuationChoices :
            \/ PriceFixedCouponBondCall(M, c, f, N, v)
            \/ CalculateDurationCall(M, c, f, N, v)
            \/ CalculateModifiedDurationCall(M, c, f, N, v)
            \/ \E price \in PriceChoices, maxit \in IterationChoices,
                  prec \in PrecisionChoices :
                    YtmCall(price, M, c, f, N, v, maxit, prec)
    \/ \E maxit \in IterationChoices, prec \in PrecisionChoices : YtmOfPrice(maxit, prec)
    \/ YtmIter
    \/ Consume

BondSpec == BondInit /\ [][BondNext]_vars

\* The interpreter runs the loop to its end: a pending iteration is taken.
BondFairSpec == BondSpec /\ WF_vars(YtmIter)

------------------------------------------------------------------------------
(* Properties of the BondPricer.                                           *)

PriceOps == {"price_zero_coupon_bond", "price_fixed_coupon_bond"}

ZeroOps == {"calculate_yield_to_maturity", "calculate_duration",
            "calculate_modified_duration"}

\* C7: with maturity <= valuation_date every BondPricer operation returns
\* without an error and without a call to the model's zero_coupon_bond_price:
\* the two prices are exactly the notional, and the yield to maturity, the
\* duration and the modified duration are exactly 0.
C7_MaturedSentinels ==
    (ret.op \in PriceOps \cup ZeroOps /\ ret.M <= ret.v) =>
        /\ ret.kind = "ok"
        /\ ret.zcb = 0
        /\ ret.op \in PriceOps => ret.val = ret.N
        /\ ret.op \in ZeroOps => ret.val = 0

C7_Witness ==
    /\ ret.op = "calculate_modified_duration"
    /\ ret.M < ret.v
    /\ ret.N = 2 * Scale
    /\ ret.val = 0

\* The state a call of calculate_yield_to_maturity has returned in.
YtmDone == ytm.pc = "done"

\* What the solver has returned is what its loop allows: the sentinel, the
\* midpoint of an early return whose residual is below precision, or the
\* midpoint of the bracket left after exactly max_iterations passes.
YtmResultSound ==
    /\ InLoop => ytm.iter <= ytm.a.max_iterations
    /\ YtmDone =>
        /\ ret.op = "calculate_yield_to_maturity"
        /\ ret.kind = "ok"
        /\ ret.val = ytm.val
        /\ ytm.iter <= ytm.a.max_iterations
        /\ IF ytm.a.M <= ytm.a.v
           THEN ytm.val = 0 /\ ytm.iter = 0
           ELSE /\ ytm.val = (ytm.low + ytm.high) \div 2
                /\ IF ytm.early
                   THEN Abs(PriceDifference(ytm.a, ytm.val)) < ytm.a.precision
                   ELSE ytm.iter = ytm.a.max_iterations

\* A pass that finds the residual of the midpoint below precision returns it.
YtmReturnsEarly ==
    (/\ InLoop
     /\ ytm.iter < ytm.a.max_iterations
     /\ Abs(PriceDifference(ytm.a, (ytm.low + ytm.high) \div 2)) < ytm.a.precision)
    => (/\ ytm'.pc = "done"
        /\ ytm'.early
        /\ ytm'.val = (ytm.low + ytm.high) \div 2)

\* C8: calculate_yield_to_maturity always terminates with a numeric result
\* and no error, after at most max_iterations passes of the bisection: it
\* returns mid as soon as |f(mid)| < precision and otherwise (low + high) / 2
\* of the last bracket once max_iterations passes are done.
C8_YtmTerminates ==
    /\ []YtmResultSound
    /\ [][YtmReturnsEarly]_vars
    /\ (InLoop ~> YtmDone)

C8_Witness ==
    /\ YtmDone
    /\ ytm.a.M > ytm.a.v
    /\ ~ytm.early
    /\ ytm.iter = MaxIter
    /\ ytm.low > LowRate * Fine
    /\ ytm.high < HighRate * Fine

\* The flat rate at which the flat-discounting price crosses the observed
\* price: the bisection on the sign of the residual alone, run until the
\* bracket is one unit wide.
RECURSIVE FlatRoot(_, _, _)
FlatRoot(a, low, high) ==
    LET mid == (low + high) \div 2
    IN  IF mid = low THEN mid
        ELSE IF PriceDifference(a, mid) > 0 THEN FlatRoot(a, mid, high)
        ELSE FlatRoot(a, low, mid)

\* The call is the round trip: the observed price is the price that
\* price_fixed_coupon_bond gives the same bond.
RoundTrip(a) ==
    a.price = PriceFixedCouponBond(model, credit_spread, a.M, a.c, a.f, a.N, a.v).val

\* The rate reproducing the price lies in [0.0001, 0.5].
RootInBracket(a) ==
    /\ PriceDifference(a, LowRate * Fine) >= 0
    /\ PriceDifference(a, HighRate * Fine) <= 0

\* C9: round trip. The yield the solver returns for the price of
\* price_fixed_coupon_bond on the same bond is within precision of the flat
\* rate reproducing that price, whenever that rate lies in [0.0001, 0.5]
\* (stated for the calls the solver declares converged).
C9_RoundTripWithinPrecision ==
    (/\ YtmDone
     /\ ytm.a.M > ytm.a.v
     /\ ytm.early
     /\ RoundTrip(ytm.a)
     /\ RootInBracket(ytm.a))
    => Abs(ytm.val - FlatRoot(ytm.a, LowRate * Fine, HighRate * Fine))
           <= ytm.a.precision * Fine

------------------------------------------------------------------------------
(* CapFloorPricer and SwaptionPricer (option_pricing.py). The Black formula  *)
(* is evaluated in floats extended by +inf, -inf and NaN, as numpy does.     *)

Num(v) == [k |-> "num", v |-> v]

PInf == [k |-> "pinf", v |-> 0]

NInf == [k |-> "ninf", v |-> 0]

NaN == [k |-> "nan", v |-> 0]

\* A Python exception left the function.
Raised == [k |-> "raise", v |-> 0]

\* forward_rate / strike. A Python float divided by zero raises
\* ZeroDivisionError; with a numpy scalar among the operands the quotient is
\* +-inf or NaN.
Ratio(F, K, numpy) ==
    IF K = 0
    THEN IF ~numpy THEN Raised
         ELSE IF F > 0 THEN PInf
         ELSE IF F < 0 THEN NInf
         ELSE NaN
    ELSE Num(Div(F, K))

\* np.log: -inf at 0, NaN below 0, never an exception.
Log(x) ==
    CASE x.k = "num" /\ x.v > 0 -> Num(Ln(x.v))
      [] x.k = "num" /\ x.v = 0 -> NInf
      [] x.k = "num" /\ x.v < 0 -> NaN
      [] x.k = "pinf" -> PInf
      [] x.k = "ninf" -> NaN
      [] OTHER -> x

\* volatility * np.sqrt(time), for volatility > 0 and time > 0
VolSqrtT(T, vol) == Mul(vol, Sqrt(T))

\* d1 = (np.log(F / K) + (volatility**2 / 2) * T) / (volatility * np.sqrt(T))
BlackD1(F, K, T, vol, numpy) ==
    LET l == Log(Ratio(F, K, numpy))
    IN  IF l.k = "num"
        THEN Num(Div(l.v + Mul(Mul(vol, vol) \div 2, T), VolSqrtT(T, vol)))
        ELSE l

\* d2 = d1 - volatility * np.sqrt(T)
BlackD2(d1, T, vol) ==
    IF d1.k = "num" THEN Num(d1.v - VolSqrtT(T, vol)) ELSE d1

\* -d
Neg(d) ==
    CASE d.k = "num" -> Num(-d.v)
      [] d.k = "pinf" -> NInf
      [] d.k = "ninf" -> PInf
      [] OTHER -> d

\* The standard normal distribution function at x >= 0 (Abramowitz-Stegun
\* 26.2.17), 1 beyond four standard deviations.
PhiUpper(x) ==
    IF x > 4 * Scale THEN Scale
    ELSE LET t    == Div(Scale, Scale + Mul(2316, x))
             poly == Mul(t, 3194 + Mul(t, -3566 + Mul(t, 17815
                        + Mul(t, -18213 + Mul(t, 13303)))))
             pdf  == Mul(3989, Exp(-(Mul(x, x) \div 2)))
         IN  Scale - Mul(pdf, poly)

Phi(x) == IF x >= 0 THEN PhiUpper(x) ELSE Scale - PhiUpper(-x)

\* norm.cdf
NormCdf(d) ==
    CASE d.k = "num" -> Num(Phi(d.v))
      [] d.k = "pinf" -> Num(Scale)
      [] d.k = "ninf" -> Num(0)
      [] OTHER -> d

\* x * p for a finite x and an extended p
Times(x, p) == IF p.k = "num" THEN Num(Mul(x, p.v)) ELSE p

\* a - b on extended values that are finite, NaN or raised
Minus(a, b) ==
    CASE a.k = "raise" \/ b.k = "raise" -> Raised
      [] a.k = "nan" \/ b.k = "nan" -> NaN
      [] OTHER -> Num(a.v - b.v)

\* a + b, likewise
Plus(a, b) ==
    CASE a.k = "raise" \/ b.k = "raise" -> Raised
      [] a.k = "nan" \/ b.k = "nan" -> NaN
      [] OTHER -> Num(a.v + b.v)

\* black_price_caplet with the payoff at expiry not floored at zero.
BlackPriceCapletSigned(F, K, T, vol, DF, N, dt, numpy) ==
    IF T <= 0
    THEN Num(Mul(Mul(Mul(F - K, DF), N), dt))
    ELSE LET d1 == BlackD1(F, K, T, vol, numpy)
             d2 == BlackD2(d1, T, vol)
         IN  Times(Mul(Mul(DF, N), dt),
                   Minus(Times(F, NormCdf(d1)), Times(K, NormCdf(d2))))

\* black_price_caplet
BlackPriceCaplet(F, K, T, vol, DF, N, dt, numpy) ==
    IF T <= 0
    THEN Num(Mul(Mul(Mul(Max(0, F - K), DF), N), dt))
    ELSE LET d1 == BlackD1(F, K, T, vol, numpy)
             d2 == BlackD2(d1, T, vol)
         IN  Times(Mul(Mul(DF, N), dt),
                   Minus(Times(F, NormCdf(d1)), Times(K, NormCdf(d2))))

\* black_price_floorlet
BlackPriceFloorlet(F, K, T, vol, DF, N, dt, numpy) ==
    IF T <= 0
    THEN Num(Mul(Mul(Mul(Max(0, K - F), DF), N), dt))
    ELSE LET d1 == BlackD1(F, K, T, vol, numpy)
             d2 == BlackD2(d1, T, vol)
         IN  Times(Mul(Mul(DF, N), dt),
                   Minus(Times(K, NormCdf(Neg(d2))), Times(F, NormCdf(Neg(d1)))))

\* SwaptionPricer.black_price
SwaptionBlackPrice(F, K, annuity, T, vol, is_payer, numpy) ==
    IF T <= 0
    THEN IF is_payer THEN Num(Mul(Max(0, F - K), annuity))
         ELSE Num(Mul(Max(0, K - F), annuity))
    ELSE LET d1 == BlackD1(F, K, T, vol, numpy)
             d2 == BlackD2(d1, T, vol)
         IN  IF is_payer
             THEN Times(annuity, Minus(Times(F, NormCdf(d1)), Times(K, NormCdf(d2))))
             ELSE Times(annuity, Minus(Times(K, NormCdf(Neg(d2))),
                                       Times(F, NormCdf(Neg(d1)))))

\* The model's forward_rate(valuation, T1, T2, r): the simple forward implied
\* by the two zero-coupon prices over [T1, T2].
ForwardRate(m, v, T1, T2, r) ==
    Div(Div(ZeroCouponBondPrice(m, v, T1, r), ZeroCouponBondPrice(m, v, T2, r)) - Scale,
        T2 - T1)

\* volatility=None and the value `0.2` used in its place
NoVolatility == -1

DefaultVolatility == 2000

VolOrDefault(volatility) ==
    IF volatility # NoVolatility THEN volatility ELSE DefaultVolatility

\* payment_dates = np.arange(start_date + payment_frequency, end_date + 1e-10,
\* payment_frequency)
PaymentDates(start, end, f) == Arange(start + f, end, f)

\* Every period taken to fix at start_date.
FixingStartAlways(dates, idx, start) == start

\* fixing_start of period idx: start_date, then the previous payment date
FixingStart(dates, idx, start) == IF idx = 1 THEN start ELSE dates[idx - 1]

\* time_to_fixing = max(0, fixing_start - valuation_date)
TimeToFixing(fixing_start, v) == Max(0, fixing_start - v)

\* What one period of a cap or floor is priced from: the forward rate over
\* the fixing period, the discount factor to the payment date and the time
\* to fixing. The forward of a period fixing after the valuation date is a
\* numpy scalar.
Period(m, v, start, dates, idx) ==
    LET fs == FixingStart(dates, idx, start)
    IN  [F  |-> ForwardRate(m, v, fs, dates[idx], m.r0),
         DF |-> ZeroCouponBondPrice(m, v, dates[idx], m.r0),
         T  |-> TimeToFixing(fs, v)]

RECURSIVE SumExt(_)
SumExt(q) == IF q = <<>> THEN Num(0) ELSE Plus(Head(q), SumExt(Tail(q)))

\* price_cap: the sum of the caplets
PriceCap(m, v, start, end, K, f, N, volatility) ==
    LET dates == PaymentDates(start, end, f)
        vol   == VolOrDefault(volatility)
    IN  SumExt([i \in 1 .. Len(dates) |->
                    LET p == Period(m, v, start, dates, i)
                    IN  BlackPriceCaplet(p.F, K, p.T, vol, p.DF, N, f, TRUE)])

\* price_floor: the sum of the floorlets
PriceFloor(m, v, start, end, K, f, N, volatility) ==
    LET dates == PaymentDates(start, end, f)
        vol   == VolOrDefault(volatility)
    IN  SumExt([i \in 1 .. Len(dates) |->
                    LET p == Period(m, v, start, dates, i)
                    IN  BlackPriceFloorlet(p.F, K, p.T, vol, p.DF, N, f, TRUE)])

\* The swap pricer's par_rate(start, end, frequency): the fixed rate at which
\* the swap is worth zero, on the model's discount curve seen from date 0.
ParRate(m, start, end, f) ==
    LET dates == PaymentDates(start, end, f)
        legs  == [i \in 1 .. Len(dates) |->
                      Mul(f, ZeroCouponBondPrice(m, 0, dates[i], m.r0))]
    IN  Div(ZeroCouponBondPrice(m, 0, start, m.r0)
                - ZeroCouponBondPrice(m, 0, end, m.r0), SumSeq(legs))

\* The annuity discounted from date 0 instead of the valuation date.
SwapAnnuityFromZero(m, v, start, end, f, N) ==
    LET dates == PaymentDates(start, end, f)
    IN  SumSeq([i \in 1 .. Len(dates) |->
                    Mul(Mul(f, ZeroCouponBondPrice(m, 0, dates[i], m.r0)), N)])

\* swap_annuity: the sum of payment_frequency * discount_factor * notional
SwapAnnuity(m, v, start, end, f, N) ==
    LET dates == PaymentDates(start, end, f)
    IN  SumSeq([i \in 1 .. Len(dates) |->
                    Mul(Mul(f, ZeroCouponBondPrice(m, v, dates[i], m.r0)), N)])

\* if expiry_date < underlying_swap_start: raise ValueError
ExpiryRejected(expiry, start) == expiry < start

\* SwaptionPricer.price
SwaptionPrice(m, v, expiry, start, end, K, f, N, volatility, is_payer) ==
    IF ExpiryRejected(expiry, start) THEN Raised
    ELSE SwaptionBlackPrice(ParRate(m, start, end, f), K,
                            SwapAnnuity(m, v, start, end, f, N),
                            Max(0, expiry - v), VolOrDefault(volatility),
                            is_payer, TRUE)

------------------------------------------------------------------------------
(* Calls on a CapFloorPricer and a SwaptionPricer built on a constructed    *)
(* model.                                                                    *)

ForwardChoices == {-100, 0, 300}

StrikeChoices == {-100, 0, 300, 600}

\* Strikes of the caps and floors priced from the model.
ModelStrikeChoices == {-100, 300, 600}

\* Strikes of the swaptions priced from the model.
SwaptionStrikeChoices == {300, 600}

TimeChoices == {0, Half, Scale}

VolChoices == {2000, 3000}

VolArgChoices == {NoVolatility, 3000}

DiscountChoices == {9500}

AnnuityChoices == {Scale, 2 * Scale}

OptionNotionalChoices == {Scale}

PeriodChoices == {Half, Scale}

OptionValuationChoices == {0, Half}

StartChoices == {0, Half, Scale}

EndChoices == {Scale, 2 * Scale}

ExpiryChoices == {Half, Scale, 2 * Scale}

OptionInit ==
    /\ model \in PricerModels
    /\ rng = SeedTape(0)
    /\ ret = NoCall
    /\ first = NoFirst
    /\ hedgeRuns = 0
    /\ credit_spread = 0
    /\ ytm = NoYtm
    /\ hedge = NoHedge
    /\ seen = NoSeen

\* How a call ended: a number, a NaN, or an exception.
Kind(x) == IF x.k = "num" THEN "ok" ELSE x.k

\* The record of a returned call: its arguments a, its outcome x, and prev,
\* the call it was paired with.
OptionRet(op, a, x, prev) ==
    [op |-> op, kind |-> Kind(x), val |-> x.v, a |-> a, prev |-> prev]

BlackPriceCapletCall(F, K, T, vol, DF, N, dt, numpy) ==
    /\ Ready
    /\ ret' = OptionRet("black_price_caplet",
              [F |-> F, K |-> K, T |-> T, vol |-> vol, numpy |-> numpy],
              BlackPriceCaplet(F, K, T, vol, DF, N, dt, numpy), NoCall)
    /\ UNCHANGED <<model, rng, first, hedgeRuns, credit_spread, ytm, hedge, seen>>

BlackPriceFloorletCall(F, K, T, vol, DF, N, dt, numpy) ==
    /\ Ready
    /\ ret' = OptionRet("black_price_floorlet",
              [F |-> F, K |-> K, T |-> T, vol |-> vol, numpy |-> numpy],
              BlackPriceFloorlet(F, K, T, vol, DF, N, dt, numpy), NoCall)
    /\ UNCHANGED <<model, rng, first, hedgeRuns, credit_spread, ytm, hedge, seen>>

SwaptionBlackPriceCall(F, K, annuity, T, vol, is_payer, numpy) ==
    /\ Ready
    /\ ret' = OptionRet("black_price",
              [F |-> F, K |-> K, T |-> T, vol |-> vol, numpy |-> numpy,
               annuity |-> annuity, is_payer |-> is_payer],
              SwaptionBlackPrice(F, K, annuity, T, vol, is_payer, numpy), NoCall)
    /\ UNCHANGED <<model, rng, first, hedgeRuns, credit_spread, ytm, hedge, seen>>

CapArgs(v, start, end, K, f, N, volatility) ==
    [v |-> v, start |-> start, end |-> end, K |-> K, f |-> f, N |-> N,
     volatility |-> volatility]

PriceCapCall(v, start, end, K, f, N, volatility) ==
    /\ Ready
    /\ ret' = OptionRet("price_cap", CapArgs(v, start, end, K, f, N, volatility),
              PriceCap(model, v, start, end, K, f, N, volatility), NoCall)
    /\ UNCHANGED <<model, rng, first, hedgeRuns, credit_spread, ytm, hedge, seen>>

PriceFloorCall(v, start, end, K, f, N, volatility) ==
    /\ Ready
    /\ ret' = OptionRet("price_floor", CapArgs(v, start, end, K, f, N, volatility),
              PriceFloor(model, v, start, end, K, f, N, volatility), NoCall)
    /\ UNCHANGED <<model, rng, first, hedgeRuns, credit_spread, ytm, hedge, seen>>

\* price_floor called with the arguments of the cap just priced.
PriceFloorOfCap ==
    /\ ret.op = "price_cap"
    /\ ret' = OptionRet("price_floor", ret.a,
                        PriceFloor(model, ret.a.v, ret.a.start, ret.a.end, ret.a.K,
                                   ret.a.f, ret.a.N, ret.a.volatility),
                        ret)
    /\ UNCHANGED <<model, rng, first, hedgeRuns, credit_spread, ytm, hedge, seen>>

SwaptionPriceCall(v, expiry, start, end, K, f, N, volatility, is_payer) ==
    /\ Ready
    /\ ret' = OptionRet("swaption_price",
              [v |-> v, expiry |-> expiry, start |-> start, end |-> end, K |-> K,
               f |-> f, N |-> N, volatility |-> volatility, is_payer |-> is_payer],
              SwaptionPrice(model, v, expiry, start, end, K, f, N, volatility, is_payer),
              NoCall)
    /\ UNCHANGED <<model, rng, first, hedgeRuns, credit_spread, ytm, hedge, seen>>

\* price called for the receiver swaption with the arguments of the payer
\* swaption just priced.
ReceiverOfPayer ==
    /\ ret.op = "swaption_price"
    /\ ret.a.is_payer
    /\ ret' = OptionRet("swaption_price", [ret.a EXCEPT !.is_payer = FALSE],
                        SwaptionPrice(model, ret.a.v, ret.a.expiry, ret.a.start,
                                      ret.a.end, ret.a.K, ret.a.f, ret.a.N,
                                      ret.a.volatility, FALSE),
                        ret)
    /\ UNCHANGED <<model, rng, first, hedgeRuns, credit_spread, ytm, hedge, seen>>

OptionNext ==
    \/ \E F \in ForwardChoices, K \in StrikeChoices, T \in TimeChoices,
          vol \in VolChoices, DF \in DiscountChoices, N \in OptionNotionalChoices,
          dt \in PeriodChoices, numpy \in BOOLEAN :
            \/ BlackPriceCapletCall(F, K, T, vol, DF, N, dt, numpy)
            \/ BlackPriceFloorletCall(F, K, T, vol, DF, N, dt, numpy)
    \/ \E F \in ForwardChoices, K \in StrikeChoices, T \in TimeChoices,
          vol \in VolChoices, annuity \in AnnuityChoices,
          is_payer \in BOOLEAN, numpy \in BOOLEAN :
            SwaptionBlackPriceCall(F, K, annuity, T, vol, is_payer, numpy)
    \/ \E v \in OptionValuationChoices, start \in StartChoices, end \in EndChoices,
          K \in ModelStrikeChoices, f \in PeriodChoices,
          N \in OptionNotionalChoices, volatility \in VolArgChoices :
            \/ PriceCapCall(v, start, end, K, f, N, volatility)
            \/ PriceFloorCall(v, start, end, K, f, N, volatility)
    \/ PriceFloorOfCap
    \/ \E v \in OptionValuationChoices, expiry \in ExpiryChoices,
          start \in StartChoices, K \in SwaptionStrikeChoices,
          f \in PeriodChoices, N \in OptionNotionalChoices,
          volatility \in VolArgChoices, is_payer \in BOOLEAN :
          \E end \in {e \in EndChoices : e >= start + f} :
            SwaptionPriceCall(v, expiry, start, end, K, f, N, volatility, is_payer)
    \/ ReceiverOfPayer
    \/ Consume

OptionSpec == OptionInit /\ [][OptionNext]_vars

------------------------------------------------------------------------------
(* Properties of the option pricers.                                        *)

\* C1: SwaptionPricer.price raises, and returns no price, in every call whose
\* expiry_date differs from underlying_swap_start, whether it is earlier or
\* later; a price is returned only when the two dates are equal.
C1_MismatchedExpiryRejected ==
    (ret.op = "swaption_price" /\ ret.a.expiry # ret.a.start) => ret.kind = "raise"

BlackOps == {"black_price_caplet", "black_price_floorlet", "black_price"}

\* C2: in the Black branch (time to maturity or expiry > 0) a forward rate
\* <= 0 or a strike <= 0 makes black_price_caplet, black_price_floorlet and
\* SwaptionPricer.black_price end in an error: no NaN and no number is
\* returned.
C2_BlackDomainError ==
    (/\ ret.op \in BlackOps
     /\ ret.a.T > 0
     /\ (ret.a.F <= 0 \/ ret.a.K <= 0))
    => ret.kind = "raise"

\* The sum over the payment periods of DF_i * notional * payment_frequency *
\* (F_i - K).
ParitySum(m, a) ==
    LET dates == PaymentDates(a.start, a.end, a.f)
    IN  SumSeq([i \in 1 .. Len(dates) |->
                    LET p == Period(m, a.v, a.start, dates, i)
                    IN  Mul(Mul(Mul(p.DF, a.N), a.f), p.F - a.K)])

\* Rounding allowed per payment period in the comparison of the two sides.
ParityTolerance(a) == 3 * Len(PaymentDates(a.start, a.end, a.f))

\* C10: cap-floor parity. For the same valuation date, start, end, strike,
\* payment frequency, notional and volatility the prices that price_cap and
\* price_floor return differ by the sum over the periods of DF_i * notional *
\* payment_frequency * (F_i - K), in the Black branch and in the intrinsic
\* branch of each period.
C10_CapFloorParity ==
    (/\ ret.op = "price_floor"
     /\ ret.prev # NoCall
     /\ ret.kind # "raise"
     /\ ret.prev.kind # "raise")
    => /\ ret.kind = "ok"
       /\ ret.prev.kind = "ok"
       /\ Abs(ret.prev.val - ret.val - ParitySum(model, ret.a)) <= ParityTolerance(ret.a)

\* The parity on the strikes the Black formula is defined for.
ParityWithPositiveStrike ==
    (ret.op = "price_floor" /\ ret.prev # NoCall /\ ret.a.K > 0)
    => /\ ret.kind = "ok"
       /\ ret.prev.kind = "ok"
       /\ Abs(ret.prev.val - ret.val - ParitySum(model, ret.a)) <= ParityTolerance(ret.a)

------------------------------------------------------------------------------
(* Cap, Floor and Collar (caps_floors.py): instruments that hold a schedule *)
(* and forward to the pricer.                                               *)

\* Cap.__init__ with dates given as year fractions
Cap(start_date, maturity_date, strike, payment_frequency, notional) ==
    [start_date |-> start_date, maturity_date |-> maturity_date, strike |-> strike,
     payment_frequency |-> payment_frequency, notional |-> notional,
     payment_dates |-> Arange(start_date + payment_frequency, maturity_date,
                              payment_frequency)]

\* Floor.__init__ with dates given as year fractions
Floor(start_date, maturity_date, strike, payment_frequency, notional) ==
    [start_date |-> start_date, maturity_date |-> maturity_date, strike |-> strike,
     payment_frequency |-> payment_frequency, notional |-> notional,
     payment_dates |-> Arange(start_date + payment_frequency, maturity_date,
                              payment_frequency)]

\* The call Cap.price makes on the pricer, and its outcome.
CapPrice(cap, m, valuation_date, volatility) ==
    [op |-> "price_cap",
     a  |-> CapArgs(valuation_date, cap.start_date, cap.maturity_date, cap.strike,
                    cap.payment_frequency, cap.notional, volatility),
     x  |-> PriceCap(m, valuation_date, cap.start_date, cap.maturity_date,
                     cap.strike, cap.payment_frequency, cap.notional, volatility)]

\* The call Floor.price makes on the pricer, and its outcome.
FloorPrice(floor, m, valuation_date, volatility) ==
    [op |-> "price_floor",
     a  |-> CapArgs(valuation_date, floor.start_date, floor.maturity_date,
                    floor.strike, floor.payment_frequency, floor.notional, volatility),
     x  |-> PriceFloor(m, valuation_date, floor.start_date, floor.maturity_date,
                       floor.strike, floor.payment_frequency, floor.notional,
                       volatility)]

\* The floor built on the cap's strike.
CollarFloorAtCapStrike(start_date, maturity_date, cap_strike, floor_strike, f, N) ==
    Floor(start_date, maturity_date, cap_strike, f, N)

\* self.floor = Floor(start_date, maturity_date, floor_strike, ...)
CollarFloor(start_date, maturity_date, cap_strike, floor_strike, f, N) ==
    Floor(start_date, maturity_date, floor_strike, f, N)

\* Collar.__init__
Collar(start_date, maturity_date, cap_strike, floor_strike, f, N) ==
    [cap   |-> Cap(start_date, maturity_date, cap_strike, f, N),
     floor |-> CollarFloor(start_date, maturity_date, cap_strike, floor_strike, f, N)]

\* Collar.price: the two calls it makes, in order, and cap_price - floor_price.
CollarPrice(collar, m, valuation_date, volatility) ==
    LET cap_price   == CapPrice(collar.cap, m, valuation_date, volatility)
        floor_price == FloorPrice(collar.floor, m, valuation_date, volatility)
    IN  [calls |-> <<cap_price, floor_price>>, x |-> Minus(cap_price.x, floor_price.x)]

CapStrikeChoices == {300, 600}

FloorStrikeChoices == {100, 300}

CollarStartChoices == {0, Half}

CollarPriceCall(start_date, maturity_date, cap_strike, floor_strike, f, N, v, volatility) ==
    /\ Ready
    /\ LET r == CollarPrice(Collar(start_date, maturity_date, cap_strike,
                                   floor_strike, f, N), model, v, volatility)
       IN  ret' = [op |-> "collar_price", kind |-> Kind(r.x), val |-> r.x.v,
                   a |-> [start_date |-> start_date, maturity_date |-> maturity_date,
                          cap_strike |-> cap_strike, floor_strike |-> floor_strike,
                          f |-> f, N |-> N, v |-> v, volatility |-> volatility],
                   calls |-> r.calls, prev |-> NoCall]
    /\ UNCHANGED <<model, rng, first, hedgeRuns, credit_spread, ytm, hedge, seen>>

CapPriceCall(start_date, maturity_date, strike, f, N, v, volatility) ==
    /\ Ready
    /\ LET r == CapPrice(Cap(start_date, maturity_date, strike, f, N), model, v,
                         volatility)
       IN  ret' = OptionRet(r.op, r.a, r.x, NoCall)
    /\ UNCHANGED <<model, rng, first, hedgeRuns, credit_spread, ytm, hedge, seen>>

FloorPriceCall(start_date, maturity_date, strike, f, N, v, volatility) ==
    /\ Ready
    /\ LET r == FloorPrice(Floor(start_date, maturity_date, strike, f, N), model, v,
                           volatility)
       IN  ret' = OptionRet(r.op, r.a, r.x, NoCall)
    /\ UNCHANGED <<model, rng, first, hedgeRuns, credit_spread, ytm, hedge, seen>>

InstrumentNext ==
    \/ \E start_date \in CollarStartChoices, maturity_date \in EndChoices,
          f \in PeriodChoices, N \in OptionNotionalChoices,
          v \in OptionValuationChoices, volatility \in VolArgChoices :
            \/ \E strike \in CapStrikeChoices :
                 CapPriceCall(start_date, maturity_date, strike, f, N, v, volatility)
            \/ \E strike \in FloorStrikeChoices :
                 FloorPriceCall(start_date, maturity_date, strike, f, N, v, volatility)
            \/ \E cap_strike \in CapStrikeChoices, floor_strike \in FloorStrikeChoices :
                 CollarPriceCall(start_date, maturity_date, cap_strike, floor_strike,
                                 f, N, v, volatility)
    \/ Consume

InstrumentSpec == OptionInit /\ [][InstrumentNext]_vars

------------------------------------------------------------------------------
(* Properties of the instruments.                                           *)

\* C16: whenever Collar.price has returned a number, it made exactly two
\* pricer calls, price_cap at the cap strike and price_floor at the floor
\* strike, both with the collar's valuation date, volatility, start, maturity,
\* payment frequency and notional, on the same pricer (rate model), and the
\* value returned is the cap price minus the floor price.
C16_CollarIsCapMinusFloor ==
    (ret.op = "collar_price" /\ ret.kind = "ok") =>
        LET a == ret.a
            cap_price   == PriceCap(model, a.v, a.start_date, a.maturity_date,
                                    a.cap_strike, a.f, a.N, a.volatility)
            floor_price == PriceFloor(model, a.v, a.start_date, a.maturity_date,
                                      a.floor_strike, a.f, a.N, a.volatility)
        IN  /\ Len(ret.calls) = 2
            /\ ret.calls[1].op = "price_cap"
            /\ ret.calls[2].op = "price_floor"
            /\ ret.calls[1].a = CapArgs(a.v, a.start_date, a.maturity_date,
                                        a.cap_strike, a.f, a.N, a.volatility)
            /\ ret.calls[2].a = CapArgs(a.v, a.start_date, a.maturity_date,
                                        a.floor_strike, a.f, a.N, a.volatility)
            /\ ret.calls[1].x = cap_price
            /\ ret.calls[2].x = floor_price
            /\ cap_price.k = "num" /\ floor_price.k = "num"
            /\ ret.val = cap_price.v - floor_price.v

\* A collar with different strikes whose cap and floor are both worth
\* something and differ, so the difference is a price of its own.
C16_Witness ==
    /\ ret.op = "collar_price" /\ ret.kind = "ok"
    /\ ret.a.cap_strike # ret.a.floor_strike
    /\ ret.calls[1].x.v > 0 /\ ret.calls[2].x.v > 0
    /\ ret.val # 0
    /\ ret.val = ret.calls[1].x.v - ret.calls[2].x.v

------------------------------------------------------------------------------
(* HedgingSimulator.simulate (simulation.py), one loop iteration at a time. *)

\* Largest n_paths of a hedging run.
MaxHedgePaths == 2

\* The iterations of the rebalancing-date loop are counted modulo MaxWhile.
MaxWhile == 4

\* current_time is followed down to MinTime; below it every iteration does
\* the same: a negative idx is appended and the loop goes on.
MinTime == -2 * Scale

\* int(x / y) for y > 0: truncation toward zero
TruncDiv(x, y) == IF x >= 0 THEN x \div y ELSE -((-x) \div y)

\* rebalance_frequency of HedgingSimulator.__init__: any number is accepted.
RebalanceChoices == {-Half, 0, Half, 7500, Scale, 2 * Scale}

HedgePathChoices == 1 .. MaxHedgePaths

\* The rate models a simulator is built on.
HedgeModels == {m \in ConstructedModels : m.sigma # 0}

\* self.instrument: a cap on two years of semi-annual periods
HedgedInstrument == Cap(0, 2 * Scale, 300, Half, Scale)

\* self.instrument.price(self.hedging_strategy.pricer, valuation_date=time):
\* the pricer reads the current rate of the shared rate model m.
InstrumentValue(m, time) == CapPrice(HedgedInstrument, m, time, NoVolatility).x.v

\* self.hedging_strategy.compute_hedge_ratio(time, rate): a strategy's ratio
\* is a function of the time and the current rate.
HedgeRatio(time, rate) == Half + time \div 4 - 5 * rate

\* times = np.linspace(0, time_horizon, timesteps + 1); times[t]
HedgeTimes(time_horizon, timesteps, t) ==
    IF timesteps = 0 THEN 0 ELSE (t * time_horizon) \div timesteps

\* while current_time < time_horizon
ContinueStrict(current_time, time_horizon) == current_time < time_horizon

\* while current_time <= time_horizon
Continue(current_time, time_horizon) == current_time <= time_horizon

\* Every step taken for a rebalancing step.
RebalanceAlways(t, rebalance_steps) == TRUE

\* if t in rebalance_steps
RebalanceDue(t, rebalance_steps) == t \in rebalance_steps

\* The transaction cost without the absolute value.
TransactionCostSigned(new_hedge_ratio, old_hedge_ratio, rate) ==
    (new_hedge_ratio - old_hedge_ratio) * rate

\* abs(new_hedge_ratio - old_hedge_ratio) * 0.0001 * rates[path, t], in units
\* of 0.0001 / Scale^2, where it is exact.
TransactionCost(new_hedge_ratio, old_hedge_ratio, rate) ==
    Abs(new_hedge_ratio - old_hedge_ratio) * rate

\* The rate the model is left with when a path starts without assigning r0.
StaleRate(m, rates, path) == m.r0

\* self.rate_model.r0 = rates[path, 0]
RateAtPathStart(m, rates, path) == rates[path][1]

\* The entries at t = 0 with the instrument value booked as profit.
StartEntriesBooked(m, row, time_horizon, timesteps) ==
    LET hedge_ratio == HedgeRatio(HedgeTimes(time_horizon, timesteps, 0), row[1])
        value       == InstrumentValue(m, HedgeTimes(time_horizon, timesteps, 0))
    IN  [instrument_value |-> value,
         hedge_ratio |-> hedge_ratio,
         hedge_value |-> Mul(hedge_ratio, row[1]),
         hedge_cost  |-> 0,
         pnl         |-> [gross |-> value, costs |-> 0]]

\* The entries of one path at t = 0, computed on the rate model m whose r0 has
\* been set. pnl is gross / Scale minus costs in the unit of TransactionCost.
StartEntries(m, row, time_horizon, timesteps) ==
    LET hedge_ratio == HedgeRatio(HedgeTimes(time_horizon, timesteps, 0), row[1])
    IN  [instrument_value |-> InstrumentValue(m, HedgeTimes(time_horizon, timesteps, 0)),
         hedge_ratio |-> hedge_ratio,
         hedge_value |-> Mul(hedge_ratio, row[1]),
         hedge_cost  |-> 0,
         pnl         |-> [gross |-> 0, costs |-> 0]]

\* The entries of one path at step t >= 1 from those at t - 1 (prev), computed
\* on the rate model m whose r0 has been set to rates[path, t].
StepEntries(m, row, prev, t, time_horizon, timesteps, rebalance_steps) ==
    LET time             == HedgeTimes(time_horizon, timesteps, t)
        rate             == row[t + 1]
        instrument_value == InstrumentValue(m, time)
        hedge_value      == Mul(prev.hedge_ratio, rate)
        pnl_t            == (instrument_value - prev.instrument_value)
                              - (hedge_value - prev.hedge_value)
        new_hedge_ratio  == HedgeRatio(time, rate)
        transaction_cost == TransactionCost(new_hedge_ratio, prev.hedge_ratio, rate)
    IN  IF RebalanceDue(t, rebalance_steps)
        THEN [instrument_value |-> instrument_value,
              hedge_ratio |-> new_hedge_ratio,
              hedge_value |-> hedge_value,
              hedge_cost  |-> transaction_cost,
              pnl |-> [gross |-> prev.pnl.gross + pnl_t,
                       costs |-> prev.pnl.costs + transaction_cost]]
        ELSE [instrument_value |-> instrument_value,
              hedge_ratio |-> prev.hedge_ratio,
              hedge_value |-> hedge_value,
              hedge_cost  |-> 0,
              pnl |-> [gross |-> prev.pnl.gross + pnl_t, costs |-> prev.pnl.costs]]

\* np.zeros((n_paths, timesteps + 1)) for each of the five result arrays
ZeroEntries ==
    [instrument_value |-> 0, hedge_ratio |-> 0, hedge_value |-> 0, hedge_cost |-> 0,
     pnl |-> [gross |-> 0, costs |-> 0]]

\* rows[p][t + 1] holds the source's five arrays at [p - 1, t].
ZeroRows(n_paths, timesteps) ==
    [p \in 1 .. n_paths |-> [t \in 1 .. timesteps + 1 |-> ZeroEntries]]

HedgeInit ==
    /\ model \in HedgeModels
    /\ rng \in Tapes
    /\ ret = NoCall
    /\ first = NoFirst
    /\ hedgeRuns = 0
    /\ credit_spread = 0
    /\ ytm = NoYtm
    /\ hedge = NoHedge
    /\ seen = NoSeen

\* HedgingSimulator(model, instrument, strategy, rebalance_frequency)
\*   .simulate(n_paths, time_horizon, seed) up to the rebalancing-date loop,
\* with the result arrays, which nothing reads before the loop ends.
\* ratio_calls holds the (path, step) pairs at which compute_hedge_ratio has
\* been called.
HedgeStart(n_paths, th, seed, rebalance_frequency) ==
    /\ hedge.pc = "idle"
    /\ ret = NoCall
    /\ hedgeRuns < MaxHedgeRuns
    /\ hedgeRuns' = hedgeRuns + 1
    /\ model' = AdaptHorizon(model, th)
    /\ rng' = TapeAfterSimulate(model', rng, n_paths, seed)
    /\ hedge' = [pc |-> "rebalance",
                 rebalance_frequency |-> rebalance_frequency,
                 n_paths |-> n_paths,
                 time_horizon |-> IF th = NoHorizon THEN model.time_horizon ELSE th,
                 timesteps |-> model'.timesteps,
                 dt |-> model'.dt,
                 rates |-> SimulateRates(model', rng, n_paths, seed),
                 rebalance_steps |-> {},
                 current_time |-> 0,
                 iterations |-> 0,
                 rows |-> ZeroRows(n_paths, model'.timesteps),
                 path |-> 0,
                 t |-> 0,
                 updates |-> 0,
                 ratio_calls |-> {}]
    /\ UNCHANGED <<ret, first, credit_spread, ytm, seen>>

\* One test of the while condition, and one iteration when it holds.
RebalanceLoop ==
    /\ hedge.pc = "rebalance"
    /\ IF Continue(hedge.current_time, hedge.time_horizon)
       THEN LET idx == TruncDiv(hedge.current_time, hedge.dt)
            IN  hedge' = [hedge EXCEPT
                    !.rebalance_steps = IF idx <= hedge.timesteps THEN @ \cup {idx} ELSE @,
                    !.current_time = Max(@ + hedge.rebalance_frequency, MinTime),
                    !.iterations = (@ + 1) % MaxWhile]
       ELSE hedge' = [hedge EXCEPT !.pc = "path"]
    /\ UNCHANGED <<model, rng, ret, first, hedgeRuns, credit_spread, ytm, seen>>

\* The head of the path loop: r0 is assigned and the entries at t = 0 written.
PathStart ==
    /\ hedge.pc = "path"
    /\ hedge.path < hedge.n_paths
    /\ LET p == hedge.path + 1
           m == [model EXCEPT !.r0 = RateAtPathStart(model, hedge.rates, p)]
       IN  /\ model' = m
           /\ hedge' = [hedge EXCEPT
                  !.rows[p][1] = StartEntries(m, hedge.rates[p], hedge.time_horizon,
                                              hedge.timesteps),
                  !.ratio_calls = @ \cup {<<p, 0>>},
                  !.t = 1,
                  !.pc = IF hedge.timesteps >= 1 THEN "step" ELSE "path",
                  !.path = IF hedge.timesteps >= 1 THEN @ ELSE @ + 1]
    /\ UNCHANGED <<rng, ret, first, hedgeRuns, credit_spread, ytm, seen>>

\* One iteration of the step loop of the current path.
StepUpdate ==
    /\ hedge.pc = "step"
    /\ LET p == hedge.path + 1
           t == hedge.t
           m == [model EXCEPT !.r0 = hedge.rates[p][t + 1]]
       IN  /\ model' = m
           /\ hedge' = [hedge EXCEPT
                  !.rows[p][t + 1] = StepEntries(m, hedge.rates[p], hedge.rows[p][t],
                                                 t, hedge.time_horizon, hedge.timesteps,
                                                 hedge.rebalance_steps),
                  !.updates = @ + 1,
                  !.ratio_calls = IF RebalanceDue(t, hedge.rebalance_steps)
                                  THEN @ \cup {<<p, t>>} ELSE @,
                  !.t = @ + 1,
                  !.pc = IF t < hedge.timesteps THEN "step" ELSE "path",
                  !.path = IF t < hedge.timesteps THEN @ ELSE @ + 1]
    /\ UNCHANGED <<rng, ret, first, hedgeRuns, credit_spread, ytm, seen>>

\* A return that puts back the r0 the call started from, the rate every path
\* starts at.
HedgeReturnRestoring ==
    /\ hedge.pc = "path"
    /\ hedge.path = hedge.n_paths
    /\ hedge' = [hedge EXCEPT !.pc = "done"]
    /\ ret' = [op |-> "simulate", kind |-> "ok", n_paths |-> hedge.n_paths,
               rates |-> hedge.rates, rows |-> hedge.rows]
    /\ model' = IF hedge.n_paths = 0 THEN model
                ELSE [model EXCEPT !.r0 = hedge.rates[1][1]]
    /\ UNCHANGED <<rng, first, hedgeRuns, credit_spread, ytm, seen>>

\* return results
HedgeReturn ==
    /\ hedge.pc = "path"
    /\ hedge.path = hedge.n_paths
    /\ hedge' = [hedge EXCEPT !.pc = "done"]
    /\ ret' = [op |-> "simulate", kind |-> "ok", n_paths |-> hedge.n_paths,
               rates |-> hedge.rates, rows |-> hedge.rows]
    /\ UNCHANGED <<model, rng, first, hedgeRuns, credit_spread, ytm, seen>>

\* The caller drops the results; the simulator can be run again.
HedgeConsume ==
    /\ hedge.pc = "done"
    /\ hedge' = NoHedge
    /\ ret' = NoCall
    /\ UNCHANGED <<model, rng, first, hedgeRuns, credit_spread, ytm, seen>>

HedgeNext ==
    \/ \E n_paths \in HedgePathChoices, th \in HedgeHorizonChoices,
          seed \in SeedChoices, rebalance_frequency \in RebalanceChoices :
            HedgeStart(n_paths, th, seed, rebalance_frequency)
    \/ RebalanceLoop
    \/ PathStart
    \/ StepUpdate
    \/ HedgeReturn
    \/ HedgeConsume

HedgeSpec == HedgeInit /\ [][HedgeNext]_vars

\* A running call is not suspended in its rebalancing-date loop: the loop
\* takes its next iteration.
HedgeFairSpec == HedgeSpec /\ WF_vars(RebalanceLoop)

------------------------------------------------------------------------------
(* Properties of the hedging simulator.                                     *)

HedgeDone == hedge.pc = "done"

\* The steps of path p with a non-zero hedging cost.
CostSteps(p) == {t \in 0 .. hedge.timesteps : hedge.rows[p][t + 1].hedge_cost # 0}

\* At every step of path p the rate is positive and the strategy's ratio
\* differs from the ratio held before the step.
RatioMovesEverywhere(p) ==
    \A t \in 1 .. hedge.timesteps :
        /\ hedge.rates[p][t + 1] > 0
        /\ HedgeRatio(HedgeTimes(hedge.time_horizon, hedge.timesteps, t),
                      hedge.rates[p][t + 1]) # hedge.rows[p][t].hedge_ratio

\* C11 as stated: with rebalance_frequency >= time_horizon, every path whose
\* rates are positive and whose ratio moves has exactly one non-zero hedging
\* cost entry.
C11_ExactlyOneCost ==
    (HedgeDone /\ hedge.rebalance_frequency >= hedge.time_horizon
               /\ hedge.timesteps >= 1) =>
        \A p \in 1 .. hedge.n_paths :
            RatioMovesEverywhere(p) => Cardinality(CostSteps(p)) = 1

\* C11, amended: with rebalance_frequency >= time_horizon the entry at step 0,
\* the first rebalancing step, is zero; a hedging cost is non-zero exactly at
\* step int(rebalance_frequency / dt) >= 1, when rebalance_frequency equals
\* time_horizon, that step is within the grid, the rate there is not zero and
\* the ratio changes there. So a row has at most one non-zero entry, and none
\* when rebalance_frequency > time_horizon.
C11_CostOnlyAtHorizonStep ==
    (HedgeDone /\ hedge.rebalance_frequency >= hedge.time_horizon) =>
        \A p \in 1 .. hedge.n_paths : \A t \in 0 .. hedge.timesteps :
            hedge.rows[p][t + 1].hedge_cost # 0
            <=> /\ hedge.rebalance_frequency = hedge.time_horizon
                /\ t >= 1
                /\ t = TruncDiv(hedge.rebalance_frequency, hedge.dt)
                /\ hedge.rates[p][t + 1] # 0
                /\ HedgeRatio(HedgeTimes(hedge.time_horizon, hedge.timesteps, t),
                              hedge.rates[p][t + 1]) # hedge.rows[p][t].hedge_ratio

\* A finished run with rebalance_frequency = time_horizon on a two-step grid:
\* the only cost of the first path is at the last step, none at step 0.
C11_Witness ==
    /\ HedgeDone
    /\ hedge.rebalance_frequency = hedge.time_horizon
    /\ hedge.timesteps = 2
    /\ CostSteps(1) = {2}

\* C12: in every call of simulate, whatever rebalance_frequency the simulator
\* was built with, the precomputation of the rebalancing steps finishes and
\* the path loop is entered.
C12_PrecomputationFinishes == (hedge.pc = "rebalance") ~> (hedge.pc = "path")

\* With a positive rebalance_frequency the precomputation finishes.
FinishesWhenPositive ==
    (hedge.pc = "rebalance" /\ hedge.rebalance_frequency > 0) ~> (hedge.pc = "path")

\* With rebalance_frequency <= 0 the rebalancing-date loop is never left.
LoopsWhenNotPositive ==
    (hedge.pc # "idle" /\ hedge.rebalance_frequency <= 0) => hedge.pc = "rebalance"

\* A call that returns has made exactly n_paths * timesteps step updates.
UpdatesWhenDone == HedgeDone => hedge.updates = hedge.n_paths * hedge.timesteps

\* The entries of a path at step t computed from its own rates alone, on a
\* rate model of its own that starts from base.
RECURSIVE RowAlone(_, _, _, _, _, _)
RowAlone(base, row, t, time_horizon, timesteps, rebalance_steps) ==
    IF t = 0
    THEN StartEntries([base EXCEPT !.r0 = row[1]], row, time_horizon, timesteps)
    ELSE StepEntries([base EXCEPT !.r0 = row[t + 1]], row,
                     RowAlone(base, row, t - 1, time_horizon, timesteps, rebalance_steps),
                     t, time_horizon, timesteps, rebalance_steps)

\* C13: when simulate returns, the five result rows of every path are what
\* the path's own rates give when the path is processed alone: no other row
\* of rates and no path processed before it has any influence.
C13_PathIndependence ==
    HedgeDone =>
        \A p \in 1 .. hedge.n_paths : \A t \in 0 .. hedge.timesteps :
            hedge.rows[p][t + 1] =
                RowAlone(model, hedge.rates[p], t, hedge.time_horizon, hedge.timesteps,
                         hedge.rebalance_steps)

\* A finished run of two paths whose rates part after step 0, the first path
\* leaving the shared model at a rate the second does not start from.
C13_Witness ==
    /\ HedgeDone
    /\ hedge.n_paths = 2
    /\ hedge.timesteps >= 1
    /\ hedge.rates[1] # hedge.rates[2]
    /\ hedge.rates[1][hedge.timesteps + 1] # hedge.rates[2][1]
    /\ hedge.rows[1] # hedge.rows[2]

RateParametersKept ==
    [][model.state = "constructed" =>
         /\ model'.kappa = model.kappa
         /\ model'.theta = model.theta
         /\ model'.sigma = model.sigma
         /\ model'.dt = model.dt]_vars

------------------------------------------------------------------------------
(* The three pricers on one rate model whose current rate the caller moves. *)

\* The pricers' operations that return a price, a yield or a duration.
PricerOps ==
    {"price_zero_coupon_bond", "price_fixed_coupon_bond", "calculate_duration",
     "calculate_modified_duration", "calculate_yield_to_maturity",
     "price_cap", "price_floor", "swaption_price"}

\* The arguments of a call: a bond (M, c, f, N) or, for the option pricers,
\* an instrument over [start, start + M] with strike K, priced at v; price
\* is the observed price calculate_yield_to_maturity is given.
PureArgs ==
    [M : {Scale, 2 * Scale}, c : {500}, f : {Half}, N : {Scale}, v : {0, Half},
     price : {9000}, start : {Half}, K : {300}]

\* Values the caller assigns to rate_model.r0 between calls.
PureRateChoices == {300, 600}

\* What the call returns on rate model m and credit spread cs.
PricerValue(op, a, m, cs) ==
    CASE op = "price_zero_coupon_bond" ->
            Num(PriceZeroCouponBond(m, cs, a.M, a.N, a.v).val)
      [] op = "price_fixed_coupon_bond" ->
            Num(PriceFixedCouponBond(m, cs, a.M, a.c, a.f, a.N, a.v).val)
      [] op = "calculate_duration" ->
            Num(CalculateDuration(m, cs, a.M, a.c, a.f, a.N, a.v).val)
      [] op = "calculate_modified_duration" ->
            Num(CalculateModifiedDuration(m, cs, a.M, a.c, a.f, a.N, a.v).val)
      [] op = "calculate_yield_to_maturity" ->
            Num(YieldToMaturity(SolverArgs(a.price, a.M, a.c, a.f, a.N, a.v)))
      [] op = "price_cap" ->
            PriceCap(m, a.v, a.start, a.start + a.M, a.K, a.f, a.N, NoVolatility)
      [] op = "price_floor" ->
            PriceFloor(m, a.v, a.start, a.start + a.M, a.K, a.f, a.N, NoVolatility)
      [] op = "swaption_price" ->
            SwaptionPrice(m, a.v, a.start, a.start, a.start + a.M, a.K, a.f, a.N,
                          NoVolatility, TRUE)

\* A pricer that leaves the model at its long-run mean.
RateModelAtMean(m) == [m EXCEPT !.r0 = m.theta]

\* The rate model after a pricer call: the pricers only read self.rate_model.
RateModelAfterCall(m) == m

\* The record of a returned call: its outcome x and the rate r0 it saw.
PricerRet(op, a, x, r0) ==
    [op |-> op, a |-> a, kind |-> Kind(x), val |-> x.v, r0 |-> r0]

\* One call of a pricer operation.
PricerCall(op, a) ==
    /\ Ready
    /\ ret' = PricerRet(op, a, PricerValue(op, a, model, credit_spread), model.r0)
    /\ model' = RateModelAfterCall(model)
    /\ UNCHANGED <<rng, first, hedgeRuns, credit_spread, ytm, hedge, seen>>

\* The caller keeps the call that has returned.
Remember ==
    /\ ret # NoCall
    /\ seen' = ret
    /\ ret' = NoCall
    /\ UNCHANGED <<model, rng, first, hedgeRuns, credit_spread, ytm, hedge>>

\* self.rate_model.r0 = r, as the hedging simulator does between two prices
SetRate(r) ==
    /\ Ready
    /\ r # model.r0
    /\ model' = [model EXCEPT !.r0 = r]
    /\ UNCHANGED <<rng, ret, first, hedgeRuns, credit_spread, ytm, hedge, seen>>

PureNext ==
    \/ \E op \in PricerOps, a \in PureArgs : PricerCall(op, a)
    \/ Remember
    \/ \E r \in PureRateChoices : SetRate(r)
    \/ Consume

PureSpec == BondInit /\ [][PureNext]_vars

------------------------------------------------------------------------------
(* The bisection of calculate_yield_to_maturity, with a caller that asks    *)
(* for every iteration (precision = 0) on a flat-discounted price.          *)

\* precision=0: abs(f(mid)) < precision never holds.
NoPrecision == 0

\* The price of a zero-coupon bond discounted at the flat rate 0.25005, the
\* first midpoint: notional * np.exp(-0.25005 * (maturity - valuation_date)).
FlatPriceAtFirstMid(M, N, v) ==
    Mul(N, FlatDiscount(MidRate(LowRate * Fine, HighRate * Fine), M - v))

\* calculate_yield_to_maturity(price, M, 0.0, f, N, v, max_iterations, 0)
\* on that price.
YtmOfFlatPrice(M, N, v, maxit) ==
    /\ Ready
    /\ M > v
    /\ YtmEnter([price |-> FlatPriceAtFirstMid(M, N, v), M |-> M, c |-> 0, f |-> Half,
                 N |-> N, v |-> v, max_iterations |-> maxit, precision |-> NoPrecision])

BisectNext ==
    \/ BondNext
    \/ \E M \in MaturityChoices, N \in NotionalChoices, v \in ValuationChoices,
          maxit \in IterationChoices : YtmOfFlatPrice(M, N, v, maxit)

BisectSpec == BondInit /\ [][BisectNext]_vars

\* The solver is in, or has left, its bisection loop.
Bisecting == ytm.pc \in {"loop", "done"} /\ ytm.a.M > ytm.a.v

RECURSIVE Halvings(_)
Halvings(n) == IF n = 0 THEN 1 ELSE 2 * Halvings(n - 1)

\* 0.0001 <= low <= high <= 0.5, the width halved once per iteration, and the
\* value returned within [0.0001, 0.5].
BracketInvariant ==
    Bisecting =>
        /\ LowRate * Fine <= ytm.low
        /\ ytm.low <= ytm.high
        /\ ytm.high <= HighRate * Fine
        /\ (ytm.high - ytm.low) * Halvings(ytm.iter) = (HighRate - LowRate) * Fine
        /\ YtmDone => (LowRate * Fine <= ytm.val /\ ytm.val <= HighRate * Fine)

\* The loop is entered on [0.0001, 0.5]; an iteration that does not return
\* replaces exactly one bound by mid: low when f(mid) * f(low) >= 0, high
\* otherwise.
StepRule ==
    /\ (~InLoop /\ ytm'.pc = "loop") =>
            (ytm'.low = LowRate * Fine /\ ytm'.high = HighRate * Fine /\ ytm'.iter = 0)
    /\ (InLoop /\ ytm'.pc = "loop") =>
            LET mid == (ytm.low + ytm.high) \div 2
            IN  /\ ytm'.iter = ytm.iter + 1
                /\ IF PriceDifference(ytm.a, mid) * PriceDifference(ytm.a, ytm.low) >= 0
                   THEN ytm'.low = mid /\ ytm'.high = ytm.high
                   ELSE ytm'.high = mid /\ ytm'.low = ytm.low

\* C17: in every call of calculate_yield_to_maturity that reaches the
\* bisection (maturity > valuation_date), the bracket starts at
\* [0.0001, 0.5], every iteration that does not return replaces exactly one
\* bound by mid (low when f(mid) * f(low) >= 0, high otherwise), so
\* 0.0001 <= low <= high <= 0.5 always, the width is half the previous one
\* after each iteration, and the value returned lies in [0.0001, 0.5].
C17_BisectionBracket == []BracketInvariant /\ [][StepRule]_vars

\* A call that ran MaxIter iterations and moved both bounds.
C17_Witness ==
    /\ YtmDone /\ Bisecting
    /\ ytm.iter = MaxIter
    /\ ytm.low > LowRate * Fine
    /\ ytm.high < HighRate * Fine
    /\ (ytm.high - ytm.low) * Halvings(MaxIter) = (HighRate - LowRate) * Fine
    /\ ret.val = (ytm.low + ytm.high) \div 2

\* f(0.0001) > 0 > f(0.5): the flat rate reproducing the price is strictly
\* inside the initial bracket (f, a sum of discounted positive flows minus the
\* price, decreases in the rate).
RootStrictlyInside(a) ==
    /\ PriceDifference(a, LowRate * Fine) > 0
    /\ PriceDifference(a, HighRate * Fine) < 0

\* f(low) >= 0 >= f(high)
RootBetween ==
    /\ PriceDifference(ytm.a, ytm.low) >= 0
    /\ PriceDifference(ytm.a, ytm.high) <= 0

\* C18: whenever f(0.0001) > 0 > f(0.5) at the start, f(low) >= 0 >= f(high)
\* holds after every iteration, until the function returns.
C18_RootContained == (Bisecting /\ RootStrictlyInside(ytm.a)) => RootBetween

\* With precision > 0 an iteration that does not return has f(mid) # 0, and
\* the root stays between the bounds.
ContainedWhenPrecisionPositive ==
    (Bisecting /\ RootStrictlyInside(ytm.a) /\ ytm.a.precision > 0) =>
        /\ PriceDifference(ytm.a, ytm.low) > 0
        /\ PriceDifference(ytm.a, ytm.high) < 0

\* The flat rate reproducing the price is above 0.5 (f > 0 on the whole
\* bracket) or below 0.0001 (f < 0 on the whole bracket).
RootOutside(a) ==
    \/ PriceDifference(a, LowRate * Fine) > 0 /\ PriceDifference(a, HighRate * Fine) > 0
    \/ PriceDifference(a, LowRate * Fine) < 0 /\ PriceDifference(a, HighRate * Fine) < 0

\* C19: when the rate reproducing the price lies outside [0.0001, 0.5], on
\* either side, calculate_yield_to_maturity returns normally, and the value
\* returned is next to a boundary of the initial bracket: the upper bound 0.5
\* never moves and the value is within the width of the final bracket of it.
C19_OutsideRootGoesToBoundary ==
    (YtmDone /\ Bisecting /\ RootOutside(ytm.a)) =>
        /\ ret.op = "calculate_yield_to_maturity"
        /\ ret.kind = "ok"
        /\ ret.val = ytm.val
        /\ ytm.high = HighRate * Fine
        /\ ytm.low <= ytm.val
        /\ HighRate * Fine - ytm.val <= ytm.high - ytm.low

\* A price above the notional with no coupon, whose rate is negative: after
\* MaxIter iterations the value returned is next to 0.5.
C19_Witness ==
    /\ YtmDone /\ Bisecting
    /\ PriceDifference(ytm.a, LowRate * Fine) < 0
    /\ PriceDifference(ytm.a, HighRate * Fine) < 0
    /\ ~ytm.early
    /\ ytm.iter = MaxIter
    /\ ytm.high = HighRate * Fine
    /\ (HighRate * Fine - ytm.val) * Halvings(MaxIter + 1) = (HighRate - LowRate) * Fine

------------------------------------------------------------------------------
(* The coupon schedule.                                                     *)

\* The nominal dates k * f, k >= 1, up to M, that are strictly after v.
NominalDatesAfter(M, f, v) ==
    {k * f : k \in {j \in 1 .. (M \div f + 1) : j * f <= M /\ j * f > v}}

\* The calls that build a schedule: the bond is not matured.
ScheduleOps ==
    {"price_fixed_coupon_bond", "calculate_yield_to_maturity", "calculate_duration"}

\* C20: for the (maturity, frequency, valuation_date) of any call of
\* price_fixed_coupon_bond, calculate_yield_to_maturity or calculate_duration
\* the three schedules are the same sequence; it is strictly increasing, every
\* date is after valuation_date and at most maturity, and when
\* valuation_date > 0 its dates are exactly the nominal dates k * frequency
\* up to maturity that are strictly after valuation_date.
C20_OneCouponSchedule ==
    (ret # NoCall /\ ret.op \in ScheduleOps /\ ret.M > ret.v) =>
        LET dates == CouponDates(ret.M, ret.f, ret.v)
        IN  /\ SolverCouponDates(ret.M, ret.f, ret.v) = dates
            /\ DurationCouponDates(ret.M, ret.f, ret.v) = dates
            /\ \A i \in 1 .. Len(dates) :
                   /\ dates[i] > ret.v
                   /\ dates[i] <= ret.M
                   /\ i > 1 => dates[i - 1] < dates[i]
            /\ ret.v > 0 =>
                   /\ {dates[i] : i \in 1 .. Len(dates)} =
                          NominalDatesAfter(ret.M, ret.f, ret.v)
                   /\ Len(dates) = Cardinality(NominalDatesAfter(ret.M, ret.f, ret.v))

\* A duration returned for a bond valued between two annual coupon dates: the
\* schedule is the nominal dates 1.0 and 2.0, not valuation_date + k * f.
C20_Witness ==
    /\ ret # NoCall /\ ret.op = "calculate_duration"
    /\ ret.v = Half /\ ret.f = Scale /\ ret.M = 2 * Scale
    /\ DurationCouponDates(ret.M, ret.f, ret.v) = <<Scale, 2 * Scale>>
    /\ SolverCouponDates(ret.M, ret.f, ret.v) = <<Scale, 2 * Scale>>
    /\ ret.val > 0

------------------------------------------------------------------------------
(* The price of a fixed-coupon bond.                                        *)

\* The dates of the coupon schedule as a set: valuation_date + k * f up to M,
\* or, when valuation_date > 0, the nominal dates after valuation_date.
ScheduleSet(M, f, v) ==
    IF v > 0 THEN NominalDatesAfter(M, f, v)
    ELSE {v + k * f : k \in {j \in 1 .. ((M - v) \div f + 1) : v + j * f <= M}}

\* DF(d) * CD(d): the model's zero-coupon price to d at the current rate,
\* times exp(-spread * (d - v)) when a spread is configured.
DiscountTo(d, v) ==
    IF credit_spread > 0
    THEN Mul(ZeroCouponBondPrice(model, v, d, model.r0), Exp(-Mul(credit_spread, d - v)))
    ELSE ZeroCouponBondPrice(model, v, d, model.r0)

RECURSIVE DiscountedCoupons(_, _, _)
DiscountedCoupons(coupon, S, v) ==
    IF S = {} THEN 0
    ELSE LET d == CHOOSE x \in S : TRUE
         IN  Mul(coupon, DiscountTo(d, v)) + DiscountedCoupons(coupon, S \ {d}, v)

\* C21: for maturity > valuation_date the price returned by
\* price_fixed_coupon_bond is the sum over the schedule of
\* notional * coupon_rate * frequency * DF(d) * CD(d) plus
\* notional * DF(maturity) * CD(maturity), the redemption counted once (one
\* discount factor per coupon date and one more for the redemption), also
\* when maturity is a coupon date.
C21_FixedCouponPrice ==
    (ret # NoCall /\ ret.op = "price_fixed_coupon_bond" /\ ret.M > ret.v) =>
        LET S == ScheduleSet(ret.M, ret.f, ret.v)
        IN  /\ ret.val = DiscountedCoupons(Mul(Mul(ret.N, ret.c), ret.f), S, ret.v)
                           + Mul(ret.N, DiscountTo(ret.M, ret.v))
            /\ ret.zcb = Cardinality(S) + 1

\* A bond with a credit spread and two coupons, the last one on the maturity
\* date: the price is above the discounted redemption alone.
C21_Witness ==
    /\ ret # NoCall /\ ret.op = "price_fixed_coupon_bond"
    /\ ret.M > ret.v /\ ret.c > 0 /\ credit_spread > 0
    /\ ret.M \in ScheduleSet(ret.M, ret.f, ret.v)
    /\ Cardinality(ScheduleSet(ret.M, ret.f, ret.v)) >= 2
    /\ ret.val > Mul(ret.N, DiscountTo(ret.M, ret.v))
    /\ ret.zcb = Cardinality(ScheduleSet(ret.M, ret.f, ret.v)) + 1

------------------------------------------------------------------------------
(* The arrays HedgingSimulator.simulate returns.                            *)

\* rows[p][t + 1] of a finished run: the source's arrays at [p - 1, t].
Entry(p, t) == hedge.rows[p][t + 1]

RECURSIVE CostsUpTo(_, _)
CostsUpTo(p, t) == IF t = 0 THEN 0 ELSE Entry(p, t).hedge_cost + CostsUpTo(p, t - 1)

\* C22: in the arrays simulate returns, pnl[p, 0] = 0 and for every t >= 1
\* pnl[p, t] = pnl[p, t-1] + (V[p, t] - V[p, t-1]) - (H[p, t] - H[p, t-1])
\* - cost[p, t] with H[p, t] = hedge_ratio[p, t-1] * rate[p, t]; hence
\* pnl[p, t] = (V[p, t] - V[p, 0]) - (H[p, t] - H[p, 0]) - cost[p, 1..t].
\* pnl is held as its gross part and its cost part, each in its own unit.
C22_CumulativePnl ==
    HedgeDone =>
        \A p \in 1 .. hedge.n_paths :
            /\ Entry(p, 0).pnl = [gross |-> 0, costs |-> 0]
            /\ \A t \in 1 .. hedge.timesteps :
                   LET e == Entry(p, t)
                       b == Entry(p, t - 1)
                       o == Entry(p, 0)
                   IN  /\ e.hedge_value = Mul(b.hedge_ratio, hedge.rates[p][t + 1])
                       /\ e.pnl.gross = b.pnl.gross
                                          + (e.instrument_value - b.instrument_value)
                                          - (e.hedge_value - b.hedge_value)
                       /\ e.pnl.costs = b.pnl.costs + e.hedge_cost
                       /\ e.pnl.gross = (e.instrument_value - o.instrument_value)
                                          - (e.hedge_value - o.hedge_value)
                       /\ e.pnl.costs = CostsUpTo(p, t)

\* A finished two-step run that rebalanced with a cost and whose instrument
\* and hedge both moved: the final P&L has a gross part and a cost part.
C22_Witness ==
    /\ HedgeDone
    /\ hedge.timesteps = 2
    /\ Entry(1, 2).pnl.costs > 0
    /\ Entry(1, 2).pnl.gross # 0
    /\ Entry(1, 2).instrument_value # Entry(1, 0).instrument_value
    /\ Entry(1, 1).pnl.gross # Entry(1, 2).pnl.gross

\* The steps t >= 1 of a finished run that are, or are not, rebalancing steps.
RebalancingSteps == {t \in 1 .. hedge.timesteps : t \in hedge.rebalance_steps}
QuietSteps == {t \in 1 .. hedge.timesteps : t \notin hedge.rebalance_steps}

\* C23: the stored hedge ratio changes only at rebalancing steps: at a step
\* t >= 1 outside the rebalancing set hedge_ratios[p, t] = hedge_ratios[p, t-1]
\* and compute_hedge_ratio is not called; at a rebalancing step t >= 1
\* hedge_ratios[p, t] = compute_hedge_ratio(times[t], rates[p, t]).
C23_RatioChangesOnlyWhenRebalancing ==
    HedgeDone =>
        \A p \in 1 .. hedge.n_paths :
            /\ \A t \in QuietSteps :
                   /\ Entry(p, t).hedge_ratio = Entry(p, t - 1).hedge_ratio
                   /\ <<p, t>> \notin hedge.ratio_calls
            /\ \A t \in RebalancingSteps :
                   /\ Entry(p, t).hedge_ratio =
                          HedgeRatio(HedgeTimes(hedge.time_horizon, hedge.timesteps, t),
                                     hedge.rates[p][t + 1])
                   /\ <<p, t>> \in hedge.ratio_calls

\* A finished run with a quiet step at which the strategy would have given
\* another ratio than the one kept, followed by a rebalancing step that
\* changed the ratio.
C23_Witness ==
    /\ HedgeDone
    /\ 1 \in QuietSteps
    /\ 2 \in RebalancingSteps
    /\ Entry(1, 1).hedge_ratio = Entry(1, 0).hedge_ratio
    /\ Entry(1, 1).hedge_ratio #
           HedgeRatio(HedgeTimes(hedge.time_horizon, hedge.timesteps, 1), hedge.rates[1][2])
    /\ Entry(1, 2).hedge_ratio # Entry(1, 1).hedge_ratio
    /\ hedge.ratio_calls = {<<1, 0>>, <<1, 2>>}

\* C24: hedge_costs[p, t] = |hedge_ratios[p, t] - hedge_ratios[p, t-1]|
\* * 0.0001 * rates[p, t] at every rebalancing step t >= 1, and 0 at step 0
\* and at every other step; with non-negative rates every cost is >= 0, so
\* the total cost of a path never decreases along the path.
C24_TransactionCosts ==
    HedgeDone =>
        \A p \in 1 .. hedge.n_paths :
            /\ Entry(p, 0).hedge_cost = 0
            /\ \A t \in QuietSteps : Entry(p, t).hedge_cost = 0
            /\ \A t \in RebalancingSteps :
                   Entry(p, t).hedge_cost =
                       Abs(Entry(p, t).hedge_ratio - Entry(p, t - 1).hedge_ratio)
                           * hedge.rates[p][t + 1]
            /\ (\A t \in 0 .. hedge.timesteps : hedge.rates[p][t + 1] >= 0) =>
                   \A t \in 1 .. hedge.timesteps :
                       /\ Entry(p, t).hedge_cost >= 0
                       /\ CostsUpTo(p, t) >= CostsUpTo(p, t - 1)

\* A finished run that paid for lowering its hedge ratio at a rebalancing
\* step and paid nothing at the quiet step before it.
C24_Witness ==
    /\ HedgeDone
    /\ 1 \in QuietSteps
    /\ 2 \in RebalancingSteps
    /\ Entry(1, 2).hedge_ratio < Entry(1, 1).hedge_ratio
    /\ Entry(1, 2).hedge_cost > 0
    /\ Entry(1, 1).hedge_cost = 0
    /\ CostsUpTo(1, 2) > CostsUpTo(1, 1)

\* The rebalancing-date loop has been left: rebalance_steps is complete.
RebalanceStepsKnown == hedge.pc \in {"path", "step", "done"}

\* Grid index i is the one nearest to time: times[i] = i * time_horizon /
\* timesteps is less than half a grid step away from it.
NearestIndex(i, time) ==
    2 * Abs(i * hedge.time_horizon - time * hedge.timesteps) < hedge.time_horizon

\* C25: the rebalancing set holds, for each time k * rebalance_frequency <=
\* time_horizon, the grid index nearest to that time; every index in it is
\* in 0 .. timesteps and index 0 is always in it.
C25_NearestGridIndex ==
    (RebalanceStepsKnown /\ hedge.timesteps >= 1) =>
        /\ 0 \in hedge.rebalance_steps
        /\ hedge.rebalance_steps \subseteq 0 .. hedge.timesteps
        /\ \A k \in 0 .. (hedge.time_horizon \div hedge.rebalance_frequency) :
               \A i \in 0 .. hedge.timesteps :
                   NearestIndex(i, k * hedge.rebalance_frequency)
                       => i \in hedge.rebalance_steps

\* What the loop computes: the truncated quotients of the times by the
\* model's dt, within the grid.
TruncatedIndexes ==
    RebalanceStepsKnown =>
        /\ 0 \in hedge.rebalance_steps
        /\ hedge.rebalance_steps =
               {i \in 0 .. hedge.timesteps :
                    \E k \in 0 .. (hedge.time_horizon \div hedge.rebalance_frequency) :
                        i = TruncDiv(k * hedge.rebalance_frequency, hedge.dt)}

\* C30: simulate assigns model.r0 = rates[p, t] before every pricing of the
\* instrument, so each stored instrument value is the price on the model with
\* that r0, and never puts the old r0 back: while a path is being stepped r0
\* is the rate of the step last priced, and on return with n_paths >= 1
\* model.r0 = rates[n_paths - 1, timesteps].
C30_RateLeftOnModel ==
    /\ hedge.pc = "step" => model.r0 = hedge.rates[hedge.path + 1][hedge.t]
    /\ (HedgeDone /\ hedge.n_paths >= 1) =>
           /\ model.r0 = hedge.rates[hedge.n_paths][hedge.timesteps + 1]
           /\ \A p \in 1 .. hedge.n_paths : \A t \in 0 .. hedge.timesteps :
                  Entry(p, t).instrument_value =
                      InstrumentValue([model EXCEPT !.r0 = hedge.rates[p][t + 1]],
                                      HedgeTimes(hedge.time_horizon, hedge.timesteps, t))

\* A finished two-path run whose model is left with the last rate of the last
\* path, which is neither the rate the call started from nor the rate one
\* step earlier, and whose last instrument value depends on it.
C30_Witness ==
    /\ HedgeDone
    /\ hedge.n_paths = 2
    /\ hedge.timesteps = 2
    /\ model.r0 = hedge.rates[2][3]
    /\ model.r0 # hedge.rates[1][1]
    /\ model.r0 # hedge.rates[2][2]
    /\ Entry(2, 2).instrument_value # Entry(2, 1).instrument_value

------------------------------------------------------------------------------
(* The periods of a cap or floor.                                           *)

CapOps == {"price_cap", "price_floor"}

\* The number of payment dates start + i * f <= end, i >= 1.
PeriodCount(a) == IF a.end < a.start + a.f THEN 0 ELSE (a.end - a.start) \div a.f

\* d_i = start + i * f; d_0 = start
PaymentDate(a, i) == a.start + i * a.f

\* The forward rate over [d_{i-1}, d_i] and the discount factor to d_i, on
\* the pricer's model seen from the valuation date.
PeriodForward(a, i) ==
    ForwardRate(model, a.v, PaymentDate(a, i - 1), PaymentDate(a, i), model.r0)

PeriodDiscount(a, i) == ZeroCouponBondPrice(model, a.v, PaymentDate(a, i), model.r0)

\* The caplet or floorlet of period i by the Black formula with time to
\* fixing T.
BlackPeriod(op, a, i, T) ==
    IF op = "price_cap"
    THEN BlackPriceCaplet(PeriodForward(a, i), a.K, T, VolOrDefault(a.volatility),
                          PeriodDiscount(a, i), a.N, a.f, TRUE)
    ELSE BlackPriceFloorlet(PeriodForward(a, i), a.K, T, VolOrDefault(a.volatility),
                            PeriodDiscount(a, i), a.N, a.f, TRUE)

RECURSIVE PeriodsFrom(_, _, _)
PeriodsFrom(op, a, i) ==
    IF i > PeriodCount(a) THEN Num(0)
    ELSE Plus(BlackPeriod(op, a, i, Max(0, PaymentDate(a, i - 1) - a.v)),
              PeriodsFrom(op, a, i + 1))

\* C26: price_cap and price_floor return the sum of one caplet or floorlet
\* per payment date d_i = start + i * payment_frequency <= end; period i
\* uses the forward rate over [d_{i-1}, d_i] with d_0 = start, the discount
\* factor to d_i, the accrual payment_frequency and the time to fixing
\* max(0, d_{i-1} - valuation_date); without a payment date the price is 0.
C26_SumOfPeriods ==
    ret.op \in CapOps =>
        /\ ret.kind = Kind(PeriodsFrom(ret.op, ret.a, 1))
        /\ ret.val = PeriodsFrom(ret.op, ret.a, 1).v
        /\ PeriodCount(ret.a) = 0 => (ret.kind = "ok" /\ ret.val = 0)

\* A cap of two periods priced to a positive number before its start, whose
\* second period has another forward rate and another time to fixing than
\* its first.
C26_Witness ==
    /\ ret.op = "price_cap"
    /\ PeriodCount(ret.a) = 2
    /\ ret.a.v < ret.a.start
    /\ ret.kind = "ok"
    /\ ret.val > 0
    /\ PeriodForward(ret.a, 2) # PeriodForward(ret.a, 1)
    /\ BlackPeriod(ret.op, ret.a, 2, Max(0, PaymentDate(ret.a, 1) - ret.a.v)).v > 0

\* A cap or floor without a payment date: end < start + payment_frequency.
NoPaymentDate == ret.op \in CapOps /\ PeriodCount(ret.a) = 0 /\ ret.val = 0

\* max(0, F - K) * DF * N * delta of a caplet, max(0, K - F) * DF * N * delta
\* of a floorlet.
Intrinsic(op, a, i) ==
    LET moneyness == IF op = "price_cap" THEN PeriodForward(a, i) - a.K
                     ELSE a.K - PeriodForward(a, i)
    IN  Mul(Mul(Mul(Max(0, moneyness), PeriodDiscount(a, i)), a.N), a.f)

\* The periods whose time to fixing is <= 0.
Fixed(a) == {i \in 1 .. PeriodCount(a) : PaymentDate(a, i - 1) - a.v <= 0}

RECURSIVE IntrinsicOrBlack(_, _, _)
IntrinsicOrBlack(op, a, i) ==
    IF i > PeriodCount(a) THEN Num(0)
    ELSE Plus(IF i \in Fixed(a) THEN Num(Intrinsic(op, a, i))
              ELSE BlackPeriod(op, a, i, PaymentDate(a, i - 1) - a.v),
              IntrinsicOrBlack(op, a, i + 1))

\* C27: every period of a cap or floor whose time to fixing is <= 0 enters
\* the price at its intrinsic value, max(0, F - K) * DF * N * delta for a
\* caplet and max(0, K - F) * DF * N * delta for a floorlet, whatever the
\* volatility; that value is never negative when DF, N and delta are not. A
\* direct call of black_price_caplet or black_price_floorlet with time to
\* maturity <= 0 returns a number >= 0, 0 when the option is out of the
\* money, whatever the forward rate, the strike and the volatility.
C27_IntrinsicWhenFixed ==
    /\ ret.op \in CapOps =>
           /\ ret.kind = Kind(IntrinsicOrBlack(ret.op, ret.a, 1))
           /\ ret.val = IntrinsicOrBlack(ret.op, ret.a, 1).v
           /\ \A i \in Fixed(ret.a) :
                  (PeriodDiscount(ret.a, i) >= 0 /\ ret.a.N >= 0 /\ ret.a.f >= 0)
                      => Intrinsic(ret.op, ret.a, i) >= 0
           /\ Fixed(ret.a) = 1 .. PeriodCount(ret.a) => (ret.kind = "ok" /\ ret.val >= 0)
    /\ (ret.op \in {"black_price_caplet", "black_price_floorlet"} /\ ret.a.T <= 0) =>
           /\ ret.kind = "ok"
           /\ ret.val >= 0
           /\ (ret.op = "black_price_caplet" /\ ret.a.F <= ret.a.K) => ret.val = 0
           /\ (ret.op = "black_price_floorlet" /\ ret.a.K <= ret.a.F) => ret.val = 0

\* A floor priced after the start of its only period, in the money, and a
\* cap fixed likewise but out of the money, are both possible; this is the
\* floor: its price is the positive intrinsic value of the period.
C27_Witness ==
    /\ ret.op = "price_floor"
    /\ PeriodCount(ret.a) = 1
    /\ Fixed(ret.a) = {1}
    /\ ret.a.v > ret.a.start
    /\ ret.val > 0
    /\ ret.val = Intrinsic(ret.op, ret.a, 1)

------------------------------------------------------------------------------
(* The swaption price.                                                      *)

\* payment_frequency * DF(valuation_date, d_i) * notional summed over the
\* swap's payment dates d_i = start + i * payment_frequency <= end.
RECURSIVE AnnuityFrom(_, _)
AnnuityFrom(a, i) ==
    IF i > PeriodCount(a) THEN 0
    ELSE Mul(Mul(a.f, PeriodDiscount(a, i)), a.N) + AnnuityFrom(a, i + 1)

\* The forward swap rate the pricer is given for the underlying swap.
SwapRate(a) == ParRate(model, a.start, a.end, a.f)

\* A call of SwaptionPricer.price that got past the check of its expiry date.
SwaptionPriced == ret.op = "swaption_price" /\ ret.kind # "raise"

\* C28: in every call of SwaptionPricer.price that passes the check of the
\* expiry date, the price is the option value on the forward swap rate S
\* times annuity = sum of payment_frequency * DF(valuation_date, d_i) *
\* notional over the swap's payment dates, a call for a payer and a put for a
\* receiver; when valuation_date >= expiry_date it is max(0, S - K) * annuity
\* for a payer and max(0, K - S) * annuity for a receiver, so that payer minus
\* receiver is (S - K) * annuity.
C28_SwaptionScaledByAnnuity ==
    SwaptionPriced =>
        LET a       == ret.a
            S       == SwapRate(a)
            annuity == AnnuityFrom(a, 1)
            black   == SwaptionBlackPrice(S, a.K, annuity, a.expiry - a.v,
                                          VolOrDefault(a.volatility), a.is_payer, TRUE)
        IN  /\ a.v < a.expiry => (ret.kind = Kind(black) /\ ret.val = black.v)
            /\ a.v >= a.expiry =>
                   /\ ret.kind = "ok"
                   /\ ret.val = IF a.is_payer THEN Mul(Max(0, S - a.K), annuity)
                                ELSE Mul(Max(0, a.K - S), annuity)
                   /\ ret.prev # NoCall =>
                          ret.prev.val - ret.val =
                              IF S >= a.K THEN Mul(S - a.K, annuity)
                              ELSE -Mul(a.K - S, annuity)

\* A receiver swaption priced at its expiry, half a year after date 0, right
\* after the payer on the same two-payment swap: the receiver is in the
\* money, the payer worth nothing.
C28_Witness ==
    /\ SwaptionPriced
    /\ ret.prev # NoCall
    /\ ret.a.v = ret.a.expiry
    /\ ret.a.v > 0
    /\ PeriodCount(ret.a) = 2
    /\ ret.val > 0
    /\ ret.prev.val = 0
    /\ ret.val = Mul(ret.a.K - SwapRate(ret.a), AnnuityFrom(ret.a, 1))

\* A payer swaption priced before its expiry to a positive number.
BlackSwaption ==
    /\ SwaptionPriced
    /\ ret.a.v < ret.a.expiry
    /\ ret.a.is_payer
    /\ ret.kind = "ok"
    /\ ret.val > 0

------------------------------------------------------------------------------
(* HedgingSimulator.analyze_results (simulation.py), applied to result      *)
(* arrays of up to MaxAnalysisPaths paths and three grid times.             *)

MaxAnalysisPaths == 2

\* confidence_level=0.95
DefaultConfidence == 9500

\* The P&L is read at its first grid time by mistake.
FinalPnlAtStart(pnl) == [p \in 1 .. Len(pnl) |-> pnl[p][1]]

\* final_pnl = pnl[:, -1]
FinalPnl(pnl) == [p \in 1 .. Len(pnl) |-> pnl[p][Len(pnl[p])]]

\* np.mean: NaN of an empty array
MeanOf(f) == IF Len(f) = 0 THEN NaN ELSE Num(RoundDiv(SumSeq(f), Len(f)))

\* np.std: the root of the mean squared deviation from the mean
StdOf(f) ==
    IF Len(f) = 0 THEN NaN
    ELSE LET mean == RoundDiv(SumSeq(f), Len(f))
             squares == SumSeq([i \in 1 .. Len(f) |-> (f[i] - mean) * (f[i] - mean)])
         IN  Num(Sqrt(RoundDiv(squares, Len(f) * Scale)))

RECURSIVE InsertSorted(_, _)
InsertSorted(x, q) ==
    IF q = <<>> THEN <<x>>
    ELSE IF x <= Head(q) THEN <<x>> \o q
    ELSE <<Head(q)>> \o InsertSorted(x, Tail(q))

RECURSIVE SortedValues(_)
SortedValues(f) == IF f = <<>> THEN <<>> ELSE InsertSorted(Head(f), SortedValues(Tail(f)))

\* np.percentile(f, alpha * 100), by linear interpolation between the two
\* order statistics around position (n - 1) * alpha, for a non-empty f.
Percentile(f, alpha) ==
    LET sorted == SortedValues(f)
        h      == (Len(f) - 1) * alpha
        lo     == h \div Scale + 1
        hi     == Min(lo + 1, Len(f))
    IN  sorted[lo] + RoundDiv((sorted[hi] - sorted[lo]) * (h % Scale), Scale)

\* final_pnl[final_pnl <= var]: a comparison with NaN selects nothing
AtOrBelow(f, var) ==
    IF var.k = "num" THEN SelectSeq(f, LAMBDA x : x <= var.v) ELSE <<>>

\* mean_pnl / std_pnl if std_pnl > 0 else np.nan
SharpeRatio(mean, std) ==
    IF std.k = "num" /\ std.v > 0 THEN Num(Div(mean.v, std.v)) ELSE NaN

\* np.sum(results['hedge_costs'], axis=1)
TotalHedgeCosts(hedge_costs) ==
    [p \in 1 .. Len(hedge_costs) |-> SumSeq(hedge_costs[p])]

\* What np.percentile makes of an empty array depends on the numpy release:
\* NaN with a warning, or an IndexError.
EmptyPercentile == {"nan", "raise"}

\* analyze_results(results, confidence_level): the analysis dictionary, or
\* Raised.
AnalyzeResults(results, confidence_level, empty) ==
    LET final_pnl == FinalPnl(results.pnl)
        mean_pnl  == MeanOf(final_pnl)
        std_pnl   == StdOf(final_pnl)
        alpha     == Scale - confidence_level
        var       == IF Len(final_pnl) = 0 THEN NaN
                     ELSE Num(Percentile(final_pnl, alpha))
    IN  IF Len(final_pnl) = 0 /\ empty = "raise" THEN Raised
        ELSE [k |-> "num",
              mean_pnl |-> mean_pnl,
              std_pnl |-> std_pnl,
              var |-> var,
              expected_shortfall |-> MeanOf(AtOrBelow(final_pnl, var)),
              sharpe_ratio |-> SharpeRatio(mean_pnl, std_pnl),
              mean_hedge_costs |-> MeanOf(TotalHedgeCosts(results.hedge_costs)),
              final_pnl_distribution |-> final_pnl]

\* The results dictionary as the call leaves it.
ResultsAfterAnalysis(results) == results

\* The P&L and hedging costs of one path at the three grid times.
PnlRowChoices == {<<0, x, y>> : x \in {-1000, 3000}, y \in {-2000, 0, 1000}}

CostRowChoices == {<<0, c, 40>> : c \in {0, 40}}

ResultsChoices ==
    UNION {[pnl : [1 .. n -> PnlRowChoices], hedge_costs : [1 .. n -> CostRowChoices]]
               : n \in 0 .. MaxAnalysisPaths}

ConfidenceChoices == {Half, DefaultConfidence, Scale}

AnalysisRet(results, confidence_level, x) ==
    [op |-> "analyze_results", kind |-> Kind(x), results |-> results,
     confidence_level |-> confidence_level, analysis |-> x,
     after |-> ResultsAfterAnalysis(results)]

AnalyzeResultsCall(results, confidence_level, empty) ==
    /\ Ready
    /\ ret' = AnalysisRet(results, confidence_level,
                          AnalyzeResults(results, confidence_level, empty))
    /\ UNCHANGED <<model, rng, first, hedgeRuns, credit_spread, ytm, hedge, seen>>

AnalysisNext ==
    \/ \E results \in ResultsChoices, confidence_level \in ConfidenceChoices,
          empty \in EmptyPercentile :
            AnalyzeResultsCall(results, confidence_level, empty)
    \/ Consume

AnalysisSpec == OptionInit /\ [][AnalysisNext]_vars

------------------------------------------------------------------------------
(* Properties of analyze_results.                                           *)

\* The values of f at the indices in I, summed.
RECURSIVE SumOver(_, _)
SumOver(f, I) ==
    IF I = {} THEN 0
    ELSE LET i == CHOOSE j \in I : TRUE IN f[i] + SumOver(f, I \ {i})

\* The k-th smallest value of f, 1 <= k <= Len(f).
OrderStatistic(f, k) ==
    CHOOSE x \in {f[i] : i \in 1 .. Len(f)} :
        /\ Cardinality({i \in 1 .. Len(f) : f[i] < x}) < k
        /\ Cardinality({i \in 1 .. Len(f) : f[i] <= x}) >= k

\* The results with every P&L entry but the last of each path set to zero.
FinalOnly(results) ==
    [results EXCEPT !.pnl = [p \in 1 .. Len(results.pnl) |->
        [t \in 1 .. Len(results.pnl[p]) |->
            IF t = Len(results.pnl[p]) THEN results.pnl[p][t] ELSE 0]]]

\* What C29 says of one analysis of the results held in ret.
AnalysisAsClaimed ==
    LET n     == Len(ret.results.pnl)
        f     == [p \in 1 .. n |-> ret.results.pnl[p][3]]
        x     == ret.analysis
        h     == (n - 1) * (Scale - ret.confidence_level)
        k     == h \div Scale + 1
        tail  == {p \in 1 .. n : f[p] <= x.var.v}
        spent == [p \in 1 .. n |-> SumOver(ret.results.hedge_costs[p], 1 .. 3)]
    IN  /\ ret.kind = "ok"
        /\ x.var.k = "num"
        /\ x.var.v * Scale =
               OrderStatistic(f, k) * Scale
                   + (OrderStatistic(f, Min(k + 1, n)) - OrderStatistic(f, k)) * (h % Scale)
        /\ tail # {}
        /\ x.expected_shortfall = Num(RoundDiv(SumOver(f, tail), Cardinality(tail)))
        /\ x.expected_shortfall.v <= x.var.v
        /\ x.std_pnl.k = "num"
        /\ x.std_pnl.v > 0 => x.sharpe_ratio = Num(Div(x.mean_pnl.v, x.std_pnl.v))
        /\ x.std_pnl.v = 0 => x.sharpe_ratio = NaN
        /\ x.std_pnl.v = 0 <=> \A p \in 1 .. n : f[p] = f[1]
        /\ x.mean_hedge_costs = Num(RoundDiv(SumOver(spent, 1 .. n), n))
        /\ \A empty \in EmptyPercentile :
               x = AnalyzeResults(FinalOnly(ret.results), ret.confidence_level, empty)
        /\ ret.after = ret.results

\* C29 as stated: for every results dictionary, VaR is the (1 -
\* confidence_level) percentile of the final P&L, ES the mean of the final
\* P&L values <= VaR, a non-empty set, so ES <= VaR, Sharpe is mean / std
\* when std > 0 and NaN when std = 0, mean_hedge_costs the mean over paths of
\* the summed costs; only the final-step P&L and the cost array are read and
\* results is left as it was.
C29_AnalysisOfFinalPnl == ret.op = "analyze_results" => AnalysisAsClaimed

\* C29, amended: the same for every results dictionary with at least one
\* path and finite P&L values. With no path the statistics are NaN or the
\* call raises, and no final P&L is <= VaR.
C29_AnalysisOfNonEmptyResults ==
    (ret.op = "analyze_results" /\ Len(ret.results.pnl) >= 1) => AnalysisAsClaimed

\* An analysis of two paths whose final P&L differ: VaR lies strictly
\* between them, ES is the lower one, the Sharpe ratio is a number, costs
\* were paid, and the P&L had other values before the final step.
C29_Witness ==
    /\ ret.op = "analyze_results"
    /\ Len(ret.results.pnl) = 2
    /\ ret.confidence_level = DefaultConfidence
    /\ ret.results.pnl[1][3] < ret.analysis.var.v
    /\ ret.analysis.var.v < ret.results.pnl[2][3]
    /\ ret.analysis.expected_shortfall.v = ret.results.pnl[1][3]
    /\ ret.analysis.sharpe_ratio.k = "num"
    /\ ret.analysis.mean_hedge_costs.v > 0
    /\ ret.results.pnl[1][2] # ret.results.pnl[2][2]

\* An analysis of equal final P&L: no Sharpe ratio.
SharpeUndefined ==
    /\ ret.op = "analyze_results"
    /\ Len(ret.results.pnl) = 2
    /\ ret.analysis.std_pnl = Num(0)
    /\ ret.analysis.sharpe_ratio = NaN

==============================================================================
